---- MODULE Spec2Model ----
(***************************************************************************)
(* Model of package logger of qingfeng-studio/go-utils                     *)
(* (src/logger/logger.go): Config records on the Go heap, Logger           *)
(* instances that hold a *Config and a zap.AtomicLevel, the level gate,    *)
(* trace-id enrichment, and the process-wide default Logger.               *)
(*                                                                         *)
(* Pointers are heap addresses (indices of heap); 0 is the nil pointer.    *)
(***************************************************************************)
EXTENDS Integers, Sequences, FiniteSets, TLC

VARIABLES
    heap,         \* Go heap of Config records: address -> Config value
    held,         \* addresses of the Config records the calling code holds
    retBy,        \* address -> Logger whose GetConfig() returned it (0: none)
    loggers,      \* Logger instances: Logger id -> [logger, config, level, mu]
                  \* with what New did: [arg, input, loc, writer]
    sinks,        \* Logger id -> records written to [console, file]
    last,         \* the call that completed last, with its results
    exited,       \* TRUE once os.Exit ran (zap's Fatal)
    calls,        \* number of calls made so far in this run
    enr,          \* one application of addTraceID: [ctx, fields, out, done]
    frm,          \* one logging call made in both forms: [meth, ctx, format, args, level, s, f, done]
    hx,           \* the httpx Client and its call: [client, call, res, done]
    jw,           \* the JWTService and the claims it signs: [cfg, kind, before, claims, now, token, n]
    my,           \* the mysqlx Config of the calling code and its last call:
                  \* [cfg, params, before, op, opts, dsn, db, err, n]
    em,           \* one logging call followed to the sinks: [level, call, res, done]
    glWrites,     \* the values stored to the variable globalLogger, oldest first
    once,         \* the sync.Once of Default: [state, view, known]
    thr,          \* the goroutines that call Default and SetGlobalConfig
    gh            \* history of the global calls: [setStarted, setDone, setIdx, news]

globVars == <<glWrites, once, thr, gh>>
pkgVars == <<jw, my, em>>
vars ==
    <<heap, held, retBy, loggers, sinks, last, exited, calls, enr, frm, hx, jw, my, em,
      glWrites, once, thr, gh>>

------------------------------------------------------------------------------
(* Bounds of the model *)

MaxHeap == 4          \* Config records allocated in one run (defaultConfig included)
MaxLoggers == 2       \* Logger instances constructed in one run
MaxWrites == 1        \* records a Logger writes to its sinks in one run
MaxCalls == 4         \* calls on Config records and Loggers in one run
NThreads == 2         \* goroutines calling Default and SetGlobalConfig
MaxThreadCalls == 2   \* calls each of those goroutines makes
MaxFields == 2        \* caller-supplied fields of one logging call
MaxChain == 2         \* context.WithValue links of one context
MaxConcCalls == 3     \* calls the goroutines sharing one Logger make in one run
MaxPieces == 2        \* pieces of the format of one formatted call
MaxArgs == 2          \* arguments of one formatted call
MaxJwtCalls == 2      \* GenerateToken calls on one claims value
MaxDsnCalls == 2      \* BuildDSN and New calls with one Config

------------------------------------------------------------------------------
(* zap levels and level texts (go.uber.org/zap/zapcore, used at            *)
(* logger.go:149 and logger.go:268)                                        *)

InfoLevel == 0

\* zapcore's numbering of the levels its parser names
LevelOf(name) ==
    CASE name = "debug"  -> -1
      [] name = "info"   -> 0
      [] name = "warn"   -> 1
      [] name = "error"  -> 2
      [] name = "dpanic" -> 3
      [] name = "panic"  -> 4
      [] name = "fatal"  -> 5

ZapNames == {"debug", "info", "warn", "error", "dpanic", "panic", "fatal"}

\* bytes.ToLower on the level texts the model feeds to the parser
ToLower(text) ==
    CASE text = "DEBUG" -> "debug"
      [] text = "INFO"  -> "info"
      [] text = "WARN"  -> "warn"
      [] text = "ERROR" -> "error"
      [] text = "FATAL" -> "fatal"
      [] text = "PANIC" -> "panic"
      [] text = "Warn"  -> "warn"
      [] text = "Debug" -> "debug"
      [] OTHER          -> text

\* zapcore.Level.UnmarshalText as called through zap.AtomicLevel.UnmarshalText:
\* lower-case and upper-case names and the empty text (info) are recognised,
\* any other text is retried in lower case; [ok |-> FALSE] is the error return.
UnmarshalText(text) ==
    IF text = "" THEN [ok |-> TRUE, lvl |-> InfoLevel]
    ELSE IF ToLower(text) \in ZapNames
         THEN [ok |-> TRUE, lvl |-> LevelOf(ToLower(text))]
         ELSE [ok |-> FALSE, lvl |-> InfoLevel]

------------------------------------------------------------------------------
(* Config values *)

\* var defaultConfig = &Config{...}: the record at address DefaultAddr
DefaultAddr == 1

defaultConfig ==
    [Level |-> "info", FileName |-> "./logs/app.log", MaxSize |-> 100,
     MaxAge |-> 7, MaxBackups |-> 10, Compress |-> TRUE,
     TimeZone |-> "Asia/Shanghai"]

\* the zero value of Config
ZeroConfig ==
    [Level |-> "", FileName |-> "", MaxSize |-> 0, MaxAge |-> 0,
     MaxBackups |-> 0, Compress |-> FALSE, TimeZone |-> ""]

\* Config literals the calling code passes to New
InputConfigs ==
    { ZeroConfig,
      [ZeroConfig EXCEPT !.Level = "warn", !.FileName = "./x.log"],
      [ZeroConfig EXCEPT !.Level = "bogus", !.TimeZone = "Not/AZone"],
      [Level |-> "debug", FileName |-> "./x.log", MaxSize |-> 50, MaxAge |-> 5,
       MaxBackups |-> 3, Compress |-> FALSE, TimeZone |-> "UTC"] }

\* level texts the calling code passes to SetLevel
LevelTexts ==
    {"debug", "info", "warn", "error", "fatal", "DEBUG", "", "invalid"}

\* a filling that leaves Compress as the caller set it
FillDefaultsKeepCompress(c, d) ==
    [Level      |-> IF c.Level = "" THEN d.Level ELSE c.Level,
     FileName   |-> IF c.FileName = "" THEN d.FileName ELSE c.FileName,
     MaxSize    |-> IF c.MaxSize = 0 THEN d.MaxSize ELSE c.MaxSize,
     MaxAge     |-> IF c.MaxAge = 0 THEN d.MaxAge ELSE c.MaxAge,
     MaxBackups |-> IF c.MaxBackups = 0 THEN d.MaxBackups ELSE c.MaxBackups,
     Compress   |-> c.Compress,
     TimeZone   |-> IF c.TimeZone = "" THEN d.TimeZone ELSE c.TimeZone]

\* New, lines 72-93: every zero field is taken from the record defaultConfig
\* points to (d); Compress is taken from it whenever it is false
FillDefaults(c, d) ==
    [Level      |-> IF c.Level = "" THEN d.Level ELSE c.Level,
     FileName   |-> IF c.FileName = "" THEN d.FileName ELSE c.FileName,
     MaxSize    |-> IF c.MaxSize = 0 THEN d.MaxSize ELSE c.MaxSize,
     MaxAge     |-> IF c.MaxAge = 0 THEN d.MaxAge ELSE c.MaxAge,
     MaxBackups |-> IF c.MaxBackups = 0 THEN d.MaxBackups ELSE c.MaxBackups,
     Compress   |-> IF ~c.Compress THEN d.Compress ELSE c.Compress,
     TimeZone   |-> IF c.TimeZone = "" THEN d.TimeZone ELSE c.TimeZone]

\* Logger.init, lines 148-151: the AtomicLevel parsed from config.Level,
\* info when the text is not recognised
InitLevel(text) ==
    IF UnmarshalText(text).ok THEN UnmarshalText(text).lvl ELSE InfoLevel

\* zone names time.LoadLocation resolves (line 123); "" is UTC
KnownZones == {"", "UTC", "Local", "Asia/Shanghai"}

\* Logger.init, lines 123-126: the location the time encoder uses, the
\* process-local zone when the name does not resolve
InitLoc(tz) == IF tz \in KnownZones THEN tz ELSE "Local"

\* Logger.init, lines 139-145: the lumberjack.Logger behind the file sink
\* takes its settings from the configuration as it is when init runs
InitWriter(c) ==
    [Filename |-> c.FileName, MaxSize |-> c.MaxSize, MaxAge |-> c.MaxAge,
     MaxBackups |-> c.MaxBackups, Compress |-> c.Compress]

\* an init that gives up, leaving l.logger nil, when the level text or the
\* zone name is not recognised
InitLoggerStrict(c) ==
    IF UnmarshalText(c.Level).ok /\ c.TimeZone \in KnownZones THEN "core" ELSE "nil"

\* Logger.init, lines 154-161: l.logger is the zap.Logger over the core of
\* console and file, whatever the configuration; init returns nil, so New's
\* fallback to zap.NewDevelopment (lines 99-102) is never taken
InitLogger(c) == "core"

\* the zero value of sync.RWMutex: no writer (0), no readers
FreeMutex == [w |-> 0, r |-> {}]

------------------------------------------------------------------------------
(* The record of the last completed call *)

NoCall ==
    [op |-> "none", l |-> 0, a |-> 0, text |-> "", err |-> FALSE, afterSet |-> FALSE,
     wrote |-> FALSE, fields |-> <<>>, panic |-> FALSE, cerr |-> <<>>, ferr |-> <<>>]

\* one more call is made, within the bound on the calls of a run
Tick == calls < MaxCalls /\ calls' = calls + 1

LoggerIds == DOMAIN loggers

\* the value a GetConfig() on Logger l returns in this state (line 281)
ConfigOf(l) == heap[loggers[l].config]

------------------------------------------------------------------------------
(* Contexts and fmt.Sprint *)

\* a context.Context: the nil interface, or a chain of WithValue links over
\* context.Background(), innermost link last
NilCtx == [nil |-> TRUE, chain |-> <<>>]
Background == [nil |-> FALSE, chain |-> <<>>]
WithValue(ctx, key, val) == [nil |-> FALSE, chain |-> Append(ctx.chain, [key |-> key, val |-> val])]

\* the values a context carries: an untyped nil, a string, an int, a bool,
\* a struct{ ID string }, a nil pointer of some type (a non-nil interface value)
NilValue == [t |-> "nil", v |-> 0]
CtxValues ==
    { NilValue, [t |-> "string", v |-> "abc"], [t |-> "string", v |-> ""],
      [t |-> "int", v |-> 42], [t |-> "int", v |-> 7], [t |-> "bool", v |-> TRUE],
      [t |-> "struct", v |-> "struct-trace"], [t |-> "nilptr", v |-> 0] }

\* ctx.Value(key): the value of the innermost link with that key, else nil
RECURSIVE ChainValue(_, _)
ChainValue(chain, key) ==
    IF chain = <<>> THEN NilValue
    ELSE IF chain[Len(chain)].key = key THEN chain[Len(chain)].val
         ELSE ChainValue(SubSeq(chain, 1, Len(chain) - 1), key)

Digit(d) ==
    CASE d = 0 -> "0" [] d = 1 -> "1" [] d = 2 -> "2" [] d = 3 -> "3" [] d = 4 -> "4"
      [] d = 5 -> "5" [] d = 6 -> "6" [] d = 7 -> "7" [] d = 8 -> "8" [] d = 9 -> "9"

RECURSIVE Decimal(_)
Decimal(n) == IF n < 10 THEN Digit(n) ELSE Decimal(n \div 10) \o Digit(n % 10)

\* fmt.Sprint of one operand: the default format of its dynamic type
Sprint(val) ==
    CASE val.t = "string" -> val.v
      [] val.t = "int"    -> Decimal(val.v)
      [] val.t = "bool"   -> IF val.v THEN "true" ELSE "false"
      [] val.t = "struct" -> "{" \o val.v \o "}"
      [] val.t = "nilptr" -> "<nil>"
      [] val.t = "nil"    -> "<nil>"

\* zap.String(key, s)
ZapString(key, s) == [key |-> key, val |-> s]

\* an addTraceID that puts the traceId field in front of the caller's fields
addTraceIDFirst(ctx, fields) ==
    IF ~ctx.nil /\ ChainValue(ctx.chain, "traceId") # NilValue
    THEN <<ZapString("traceId", Sprint(ChainValue(ctx.chain, "traceId")))>> \o fields
    ELSE fields

\* Logger.addTraceID, lines 165-172
addTraceID(ctx, fields) ==
    IF ~ctx.nil /\ ChainValue(ctx.chain, "traceId") # NilValue
    THEN Append(fields, ZapString("traceId", Sprint(ChainValue(ctx.chain, "traceId"))))
    ELSE fields

------------------------------------------------------------------------------
(* The level gate and the logging methods *)

\* severity of the zap method each Logger method calls (lines 174-202)
SeverityOf(meth) ==
    CASE meth = "Debug" -> LevelOf("debug")
      [] meth = "Info"  -> LevelOf("info")
      [] meth = "Warn"  -> LevelOf("warn")
      [] meth = "Error" -> LevelOf("error")
      [] meth = "Fatal" -> LevelOf("fatal")

Methods == {"Debug", "Info", "Warn", "Error", "Fatal"}

\* a gate that passes only severities above the current level
EnabledStrict(sev, level) == sev > level

\* zapcore's LevelEnabler of the core built at lines 154-158: the AtomicLevel
Enabled(sev, level) == sev >= level

------------------------------------------------------------------------------
(* The package-level state before any goroutine has run *)

\* no record written
NoRecord == [wrote |-> FALSE, level |-> InfoLevel, msg |-> "", fields |-> <<>>]

\* no logging call made yet in either form
NoForm ==
    [meth |-> "Info", ctx |-> NilCtx, format |-> <<>>, args |-> <<>>,
     level |-> InfoLevel, s |-> NoRecord, f |-> NoRecord, done |-> FALSE]

\* the result of an httpx call that has not been made: nil response, nil
\* body, nil error, no URL built, no request given to the http.Client
NoResult ==
    [resp |-> 0, body |-> "nil", err |-> "nil", urlBuilt |-> FALSE, attempts |-> 0,
     url |-> <<>>, sent |-> <<>>]

\* no httpx client built and no call made yet
NoHttp ==
    [client |-> [baseURL |-> <<>>, defaultHeaders |-> <<>>], call |-> <<>>,
     res |-> NoResult, done |-> FALSE]

\* a *NumericDate that is nil, and jwt.NewNumericDate(t)
NilDate == <<>>
NewNumericDate(t) == <<t>>

\* the zero jwt.RegisteredClaims
NoClaims == [Issuer |-> "", IssuedAt |-> NilDate, ExpiresAt |-> NilDate]

\* no JWTService built and no token generated yet
NoJwt ==
    [cfg |-> [Secret |-> "", Issuer |-> "", ExpireTime |-> 0], kind |-> "none",
     before |-> NoClaims, claims |-> NoClaims, now |-> 0, token |-> <<>>, n |-> 0]

\* a Config of the calling code with no mysqlx call made yet
NoMysql ==
    [cfg |-> [Net |-> "", PingTimeout |-> 0, MaxOpenConns |-> 0, nilParams |-> TRUE],
     params |-> <<>>, before |-> <<>>, op |-> "none", opts |-> <<>>, dsn |-> <<>>,
     db |-> "nil", err |-> "nil", n |-> 0]

\* no logging call followed yet
NoEmit ==
    [level |-> InfoLevel, call |-> <<>>,
     res |-> [passed |-> FALSE, caller |-> [pkg |-> "", fn |-> ""], console |-> <<>>,
              file |-> <<>>, errOut |-> <<>>, panic |-> FALSE, exit |-> FALSE],
     done |-> FALSE]

\* the packages jwt and mysqlx unused and no logging call followed
PkgIdle ==
    /\ jw = NoJwt
    /\ my = NoMysql
    /\ em = NoEmit

Threads == 1..NThreads

\* var globalLogger *Logger (nil) and var once sync.Once, lines 48-49
GlobalIdle ==
    /\ glWrites = <<0>>
    /\ once = [state |-> "fresh", view |-> 1, known |-> {}]
    /\ thr = [t \in Threads |->
                [pc |-> "idle", op |-> "none", ref |-> 0, built |-> FALSE,
                 view |-> 1, known |-> {}, exp |-> 0, n |-> 0]]
    /\ gh = [setStarted |-> 0, setDone |-> 0, setIdx |-> 0, news |-> 0]

------------------------------------------------------------------------------
(* Operations on Logger instances: every call is one step *)

Init ==
    /\ heap = <<defaultConfig>>
    /\ held = {}
    /\ retBy = <<0>>
    /\ loggers = <<>>
    /\ sinks = <<>>
    /\ last = NoCall
    /\ exited = FALSE
    /\ calls = 0
    /\ enr = [ctx |-> NilCtx, fields |-> <<>>, out |-> <<>>, done |-> FALSE]
    /\ frm = NoForm
    /\ hx = NoHttp
    /\ PkgIdle
    /\ GlobalIdle

\* the calling code builds a Config literal: c := &Config{...}
CallerAlloc(c) ==
    /\ ~exited
    /\ Tick
    /\ Len(heap) < MaxHeap
    /\ heap' = Append(heap, c)
    /\ held' = held \cup {Len(heap) + 1}
    /\ retBy' = Append(retBy, 0)
    /\ last' = [NoCall EXCEPT !.op = "Alloc", !.a = Len(heap) + 1]
    /\ UNCHANGED <<loggers, sinks, exited, enr, frm, hx, pkgVars, globVars>>

\* New's lines 67-70 on heap h for argument a (0: nil): the address the new
\* Logger's config field holds, a fresh copy of *defaultConfig for nil
NewAddr(h, a) == IF a = 0 THEN Len(h) + 1 ELSE a

\* the heap after New's lines 67-93
NewHeap(h, a) ==
    LET base == IF a = 0 THEN Append(h, h[DefaultAddr]) ELSE h
    IN  [base EXCEPT ![NewAddr(h, a)] =
                        FillDefaults(base[NewAddr(h, a)], base[DefaultAddr])]

\* the Config value New starts from (lines 67-70): the caller's record, or
\* the copy of *defaultConfig for nil
NewInput(h, a) == IF a = 0 THEN h[DefaultAddr] ELSE h[a]

\* the Logger New returns (lines 95-104), its logger and level set up by
\* Logger.init from the filled configuration
NewLogger(h, a) ==
    [logger |-> InitLogger(NewHeap(h, a)[NewAddr(h, a)]),
     config |-> NewAddr(h, a),
     level  |-> InitLevel(NewHeap(h, a)[NewAddr(h, a)].Level),
     mu     |-> FreeMutex,
     arg    |-> a,
     input  |-> NewInput(h, a),
     loc    |-> InitLoc(NewHeap(h, a)[NewAddr(h, a)].TimeZone),
     writer |-> InitWriter(NewHeap(h, a)[NewAddr(h, a)])]

\* New(config), lines 65-105, with Logger.init's level set-up
New(a) ==
    /\ ~exited
    /\ Tick
    /\ Len(loggers) < MaxLoggers
    /\ a = 0 => Len(heap) < MaxHeap
    /\ heap' = NewHeap(heap, a)
    /\ retBy' = IF a = 0 THEN Append(retBy, 0) ELSE retBy
    /\ loggers' = Append(loggers, NewLogger(heap, a))
    /\ sinks' = Append(sinks, [console |-> 0, file |-> 0])
    /\ last' = [NoCall EXCEPT !.op = "New", !.l = Len(loggers) + 1, !.a = a]
    /\ UNCHANGED <<held, exited, enr, frm, hx, pkgVars, globVars>>

\* a SetLevel that sets the AtomicLevel and forgets config.Level (line 271)
SetLevelNoStore(l, text) ==
    /\ ~exited
    /\ Tick
    /\ IF UnmarshalText(text).ok
       THEN loggers' = [loggers EXCEPT ![l].level = UnmarshalText(text).lvl]
       ELSE UNCHANGED loggers
    /\ last' = [NoCall EXCEPT !.op = "SetLevel", !.l = l, !.text = text,
                              !.err = ~UnmarshalText(text).ok]
    /\ UNCHANGED <<heap, held, retBy, sinks, exited, enr, frm, hx, pkgVars, globVars>>

\* the body of Logger.SetLevel, lines 268-272, run under l.mu
SetLevelBody(l, text) ==
    IF UnmarshalText(text).ok
    THEN /\ loggers' = [loggers EXCEPT ![l].level = UnmarshalText(text).lvl]
         /\ heap' = [heap EXCEPT ![loggers[l].config].Level = text]
    ELSE UNCHANGED <<loggers, heap>>

\* Logger.SetLevel, lines 264-273
SetLevel(l, text) ==
    /\ ~exited
    /\ Tick
    /\ SetLevelBody(l, text)
    /\ last' = [NoCall EXCEPT !.op = "SetLevel", !.l = l, !.text = text,
                              !.err = ~UnmarshalText(text).ok]
    /\ UNCHANGED <<held, retBy, sinks, exited, enr, frm, hx, pkgVars, globVars>>

\* a GetConfig that returns l.config itself instead of a copy
GetConfigShared(l) ==
    /\ ~exited
    /\ Tick
    /\ held' = held \cup {loggers[l].config}
    /\ retBy' = [retBy EXCEPT ![loggers[l].config] = l]
    /\ last' = [NoCall EXCEPT !.op = "GetConfig", !.l = l, !.a = loggers[l].config,
                              !.afterSet = (last.op = "SetLevel" /\ last.l = l),
                              !.text = IF last.op = "SetLevel" /\ last.l = l
                                       THEN last.text ELSE "",
                              !.err = (last.op = "SetLevel" /\ last.l = l /\ last.err)]
    /\ UNCHANGED <<heap, loggers, sinks, exited, enr, frm, hx, pkgVars, globVars>>

\* Logger.GetConfig, lines 276-283: a fresh record holding a copy of *l.config
GetConfig(l) ==
    /\ ~exited
    /\ Tick
    /\ Len(heap) < MaxHeap
    /\ heap' = Append(heap, heap[loggers[l].config])
    /\ held' = held \cup {Len(heap) + 1}
    /\ retBy' = Append(retBy, l)
    /\ last' = [NoCall EXCEPT !.op = "GetConfig", !.l = l, !.a = Len(heap) + 1,
                              !.afterSet = (last.op = "SetLevel" /\ last.l = l),
                              !.text = IF last.op = "SetLevel" /\ last.l = l
                                       THEN last.text ELSE "",
                              !.err = (last.op = "SetLevel" /\ last.l = l /\ last.err)]
    /\ UNCHANGED <<loggers, sinks, exited, enr, frm, hx, pkgVars, globVars>>

\* fields of a Config record the calling code assigns to, with the values
WriteValues(f) ==
    CASE f = "Level"   -> {"error"}
      [] f = "MaxSize" -> {0}
      [] f = "Compress" -> {FALSE}

WriteFields == {"Level", "MaxSize", "Compress"}

\* the calling code assigns to a field of a record it holds: c.f = v
CallerWrite(a, f, v) ==
    /\ ~exited
    /\ Tick
    /\ a \in held
    /\ heap[a][f] # v
    /\ heap' = [heap EXCEPT ![a][f] = v]
    /\ last' = [NoCall EXCEPT !.op = "CallerWrite", !.a = a, !.text = f]
    /\ UNCHANGED <<held, retBy, loggers, sinks, exited, enr, frm, hx, pkgVars, globVars>>

\* Logger.Debug/Info/Warn/Error/Fatal, lines 174-202: enrich the fields, then
\* call the method of l.logger (a nil pointer dereference, which ends the
\* process, when l.logger is nil): zap checks the gate and writes the record
\* to console and file; zap's Fatal ends the process after the write
Log(l, meth, ctx, fields) ==
    /\ ~exited
    /\ Tick
    /\ sinks[l].console < MaxWrites
    /\ IF loggers[l].logger # "nil" /\ Enabled(SeverityOf(meth), loggers[l].level)
       THEN sinks' = [sinks EXCEPT ![l] = [console |-> @.console + 1, file |-> @.file + 1]]
       ELSE UNCHANGED sinks
    /\ exited' = (meth = "Fatal" \/ loggers[l].logger = "nil")
    /\ last' = [NoCall EXCEPT !.op = "Log", !.l = l, !.text = meth,
                              !.wrote = (sinks'[l].file > sinks[l].file),
                              !.fields = addTraceID(ctx, fields),
                              !.panic = (loggers[l].logger = "nil")]
    /\ UNCHANGED <<heap, held, retBy, loggers, enr, frm, hx, pkgVars, globVars>>

\* an error is its message, a sequence of phrases; <<>> is the nil error
NilErr == <<>>

\* strings.Contains(msg, phrase)
Contains(msg, phrase) == \E i \in 1..Len(msg) : msg[i] = phrase

\* l.logger.Sync(), line 250: zap flushes the core, whose syncer is the
\* MultiWriteSyncer of console and file (line 156); it calls Sync on both and
\* joins the errors it gets into one error, the messages separated by ";"
ZapSync(cerr, ferr) ==
    IF cerr = NilErr THEN ferr
    ELSE IF ferr = NilErr THEN cerr
         ELSE cerr \o <<";">> \o ferr

\* the error Logger.Sync returns for the error of l.logger.Sync(), lines 250-260
SyncResult(err) ==
    IF err = NilErr THEN NilErr
    ELSE IF \/ Contains(err, "bad file descriptor")
            \/ Contains(err, "/dev/stdout")
            \/ Contains(err, "invalid argument")
         THEN NilErr
         ELSE err

\* the errors the Sync of the console stream and of the file sink give
ConsoleSyncErrs ==
    { NilErr,
      <<"sync", "/dev/stdout", "bad file descriptor">>,
      <<"sync", "/dev/stdout", "invalid argument">> }
FileSyncErrs == { NilErr, <<"sync", "./x.log", "input/output error">> }

\* Logger.Sync, lines 249-261, the two sinks answering cerr and ferr
Sync(l, cerr, ferr) ==
    /\ ~exited
    /\ Tick
    /\ exited' = (loggers[l].logger = "nil")
    /\ last' = [NoCall EXCEPT !.op = "Sync", !.l = l, !.cerr = cerr, !.ferr = ferr,
                              !.err = (SyncResult(ZapSync(cerr, ferr)) # NilErr),
                              !.panic = (loggers[l].logger = "nil")]
    /\ UNCHANGED <<heap, held, retBy, loggers, sinks, enr, frm, hx, pkgVars, globVars>>

\* the fields and contexts of the logging calls of Spec
F1 == ZapString("k", "v")
LogFields == {<<>>, <<F1>>}
LogCtxs == {NilCtx, WithValue(Background, "traceId", [t |-> "string", v |-> "abc"])}

Next ==
    \/ \E c \in InputConfigs : CallerAlloc(c)
    \/ \E a \in held \cup {0} : New(a)
    \/ \E l \in LoggerIds, text \in LevelTexts : SetLevel(l, text)
    \/ \E l \in LoggerIds : GetConfig(l)
    \/ \E a \in held, f \in WriteFields : \E v \in WriteValues(f) : CallerWrite(a, f, v)
    \/ \E l \in LoggerIds, meth \in Methods, ctx \in LogCtxs, fields \in LogFields :
          Log(l, meth, ctx, fields)
    \/ \E l \in LoggerIds, cerr \in ConsoleSyncErrs, ferr \in FileSyncErrs : Sync(l, cerr, ferr)

Spec == Init /\ [][Next]_vars

------------------------------------------------------------------------------
(* Properties of Logger instances, checked under Spec *)

\* the level names of the Configuration's enum
EnumNames == {"debug", "info", "warn", "error", "fatal"}

\* severity order debug < info < warn < error < fatal, zap's two panic
\* levels lying between error and fatal
Rank(name) ==
    CASE name = "debug"  -> 1
      [] name = "info"   -> 2
      [] name = "warn"   -> 3
      [] name = "error"  -> 4
      [] name = "dpanic" -> 5
      [] name = "panic"  -> 6
      [] name = "fatal"  -> 7

NameOfLevel(lvl) == CHOOSE name \in ZapNames : LevelOf(name) = lvl

NameOfMethod(meth) ==
    CASE meth = "Debug" -> "debug"
      [] meth = "Info"  -> "info"
      [] meth = "Warn"  -> "warn"
      [] meth = "Error" -> "error"
      [] meth = "Fatal" -> "fatal"

\* the value a GetConfig() on Logger l returns in the state a step leads to
ConfigOfNext(l) == heap'[loggers'[l].config]

NoZeroField(c) ==
    /\ c.Level # ""
    /\ c.FileName # ""
    /\ c.TimeZone # ""
    /\ c.MaxSize # 0
    /\ c.MaxAge # 0
    /\ c.MaxBackups # 0

\* C1: SetLevel(n) with n one of debug, info, warn, error, fatal returns no
\* error, and the GetConfig() made right after it on the same Logger returns
\* a record whose Level is exactly n.
C1_SetLevelThenGetConfig ==
    /\ (last.op = "SetLevel" /\ last.text \in EnumNames) => ~last.err
    /\ (last.op = "GetConfig" /\ last.afterSet /\ last.text \in EnumNames)
          => (~last.err /\ heap[last.a].Level = last.text)

\* a GetConfig() right after SetLevel("fatal") on a Logger built at another level
C1_Witness ==
    /\ last.op = "GetConfig"
    /\ last.afterSet
    /\ last.text = "fatal"
    /\ heap[last.a].Level = "fatal"
    /\ loggers[last.l].level = LevelOf("fatal")

\* C2 (as claimed): SetLevel with a text that is not one of debug, info, warn,
\* error, fatal returns an error and leaves the AtomicLevel and config.Level
\* as they were.
C2_NonEnumTextRejected ==
    [][ (last'.op = "SetLevel" /\ last'.text \notin EnumNames)
            => /\ last'.err
               /\ loggers'[last'.l].level = loggers[last'.l].level
               /\ ConfigOfNext(last'.l) = ConfigOf(last'.l) ]_vars

\* C6: an assignment to a field of a record that GetConfig() returned leaves
\* the value GetConfig() returns for that Logger, and the Logger's level,
\* as they were.
C6_ReturnedCopyIndependent ==
    [][ (last'.op = "CallerWrite" /\ retBy[last'.a] # 0)
            => /\ ConfigOfNext(retBy[last'.a]) = ConfigOf(retBy[last'.a])
               /\ loggers'[retBy[last'.a]].level = loggers[retBy[last'.a]].level ]_vars

\* the calling code has just changed a record GetConfig() returned, which now
\* differs from the Logger's configuration
C6_Witness ==
    /\ last.op = "CallerWrite"
    /\ retBy[last.a] # 0
    /\ heap[last.a] # ConfigOf(retBy[last.a])

\* C7 (as claimed): after New(c), an assignment by the calling code to a field
\* of c leaves the Logger's GetConfig() value as it was, and a SetLevel on the
\* Logger leaves the record c as it was.
C7_LoggerOwnsCopy ==
    [][ /\ last'.op = "CallerWrite"
            => \A l \in LoggerIds :
                  loggers[l].arg = last'.a => ConfigOfNext(l) = ConfigOf(l)
        /\ (last'.op = "SetLevel" /\ loggers[last'.l].arg # 0)
            => heap'[loggers[last'.l].arg] = heap[loggers[last'.l].arg] ]_vars

\* C8 (as claimed): New leaves no field of the Logger's configuration
\* zero-valued, and no SetLevel call, successful or failed, makes one so.
C8_NoZeroField ==
    [][ /\ last'.op = "New" => NoZeroField(ConfigOfNext(last'.l))
        /\ (last'.op = "SetLevel" /\ NoZeroField(ConfigOf(last'.l)))
              => NoZeroField(ConfigOfNext(last'.l)) ]_vars

\* C11: New returns a Logger for every input, nil and records with unset
\* fields, an unknown zone name or an unknown level text included: its
\* logger and config pointers are non-nil, and no Debug, Info, Warn, Error,
\* SetLevel or GetConfig call on it panics.
C11_NewNeverFails ==
    /\ \A l \in LoggerIds :
          /\ loggers[l].logger # "nil"
          /\ loggers[l].config \in 1..Len(heap)
    /\ ~last.panic
    /\ (last.op \in {"SetLevel", "GetConfig"} \/ (last.op = "Log" /\ last.text # "Fatal"))
          => ~exited

\* a Logger built from a record with an unknown level text and an unknown
\* zone name runs at level info in the local zone and has written an Info record
C11_Witness ==
    /\ last.op = "Log"
    /\ last.text = "Info"
    /\ last.wrote
    /\ ~last.panic
    /\ loggers[last.l].input.Level = "bogus"
    /\ loggers[last.l].input.TimeZone = "Not/AZone"
    /\ loggers[last.l].level = InfoLevel
    /\ loggers[last.l].loc = "Local"

\* an error the claim counts as a benign console-stream error
BenignConsoleErr(err) ==
    /\ err # NilErr
    /\ \/ Contains(err, "bad file descriptor")
       \/ Contains(err, "invalid argument")
       \/ Contains(err, "/dev/stdout")

C9_GateLaw ==
    last.op = "Log"
        => /\ last.wrote <=>
                Rank(NameOfMethod(last.text)) >= Rank(NameOfLevel(loggers[last.l].level))
           /\ sinks[last.l].console = sinks[last.l].file

\* at level warn a Warn call has written its record to both sinks
C9_Witness ==
    /\ last.op = "Log"
    /\ last.text = "Warn"
    /\ loggers[last.l].level = LevelOf("warn")
    /\ ConfigOf(last.l).Level = "warn"
    /\ last.wrote
    /\ sinks[last.l].file = 1
    /\ sinks[last.l].console = 1

\* at level warn an Info call has written nothing
C9_WitnessSuppressed ==
    /\ last.op = "Log"
    /\ last.text = "Info"
    /\ loggers[last.l].level = LevelOf("warn")
    /\ ~last.wrote
    /\ sinks[last.l].file = 0

------------------------------------------------------------------------------
(* addTraceID on its own: every context and field list within the bounds *)

CtxKeys == {"traceId", "other"}

\* the WithValue chains of at most n links
RECURSIVE Chains(_)
Chains(n) ==
    IF n = 0 THEN {<<>>}
    ELSE Chains(n - 1) \cup
         { Append(c, [key |-> k, val |-> v]) :
             c \in {d \in Chains(n - 1) : Len(d) = n - 1}, k \in CtxKeys, v \in CtxValues }

Contexts == {NilCtx} \cup {[nil |-> FALSE, chain |-> c] : c \in Chains(MaxChain)}

\* caller-supplied fields, one of them itself named traceId
F2 == ZapString("traceId", "mine")
FieldPool == {F1, F2, ZapString("n", "1")}

RECURSIVE FieldLists(_)
FieldLists(n) ==
    IF n = 0 THEN {<<>>}
    ELSE FieldLists(n - 1) \cup
         { Append(fs, f) : fs \in {g \in FieldLists(n - 1) : Len(g) = n - 1}, f \in FieldPool }

InitEnrich ==
    /\ heap = <<defaultConfig>>
    /\ held = {}
    /\ retBy = <<0>>
    /\ loggers = <<>>
    /\ sinks = <<>>
    /\ last = NoCall
    /\ exited = FALSE
    /\ calls = 0
    /\ enr \in [ctx : Contexts, fields : FieldLists(MaxFields), out : {<<>>}, done : {FALSE}]
    /\ frm = NoForm
    /\ hx = NoHttp
    /\ PkgIdle
    /\ GlobalIdle

\* l.addTraceID(ctx, fields)
Enrich ==
    /\ ~enr.done
    /\ enr' = [enr EXCEPT !.out = addTraceID(enr.ctx, enr.fields), !.done = TRUE]
    /\ UNCHANGED <<heap, held, retBy, loggers, sinks, last, exited, calls, frm, hx, pkgVars, globVars>>

NextEnrich == Enrich

SpecEnrich == InitEnrich /\ [][NextEnrich]_vars

\* the links of a chain that carry the key traceId
TraceLinks(chain) == {i \in 1..Len(chain) : chain[i].key = "traceId"}

InnermostTrace(chain) ==
    chain[CHOOSE i \in TraceLinks(chain) : \A j \in TraceLinks(chain) : j <= i].val

\* a context that is non-nil and whose traceId lookup gives a non-nil value
CarriesTraceId(ctx) ==
    /\ ~ctx.nil
    /\ TraceLinks(ctx.chain) # {}
    /\ InnermostTrace(ctx.chain) # NilValue

\* the default string form of the values of CtxValues, written out
DefaultText(val) ==
    CASE val = [t |-> "string", v |-> "abc"] -> "abc"
      [] val = [t |-> "string", v |-> ""]    -> ""
      [] val = [t |-> "int", v |-> 42]       -> "42"
      [] val = [t |-> "int", v |-> 7]        -> "7"
      [] val = [t |-> "bool", v |-> TRUE]    -> "true"
      [] val = [t |-> "struct", v |-> "struct-trace"] -> "{struct-trace}"
      [] val = [t |-> "nilptr", v |-> 0]     -> "<nil>"

\* C10: with a nil context, or no value (or a nil value) under traceId, the
\* result is the k caller fields in order; with a non-nil value it is those
\* k fields in order followed by one field named traceId whose value is the
\* default string form of the value.
C10_Enrichment ==
    enr.done =>
        IF CarriesTraceId(enr.ctx)
        THEN /\ Len(enr.out) = Len(enr.fields) + 1
             /\ SubSeq(enr.out, 1, Len(enr.fields)) = enr.fields
             /\ enr.out[Len(enr.out)].key = "traceId"
             /\ enr.out[Len(enr.out)].val = DefaultText(InnermostTrace(enr.ctx.chain))
        ELSE enr.out = enr.fields

\* two caller fields and an int traceId under an outer link that an inner
\* link of another key does not hide
C10_Witness ==
    /\ enr.done
    /\ Len(enr.fields) = 2
    /\ Len(enr.ctx.chain) = 2
    /\ enr.ctx.chain[2].key = "other"
    /\ Len(enr.out) = 3
    /\ enr.out[3] = ZapString("traceId", "42")

------------------------------------------------------------------------------
(* Default and SetGlobalConfig, called from several goroutines.            *)
(*                                                                         *)
(* globalLogger is read and written without synchronisation (lines 53, 57, *)
(* 58, 61, 320). Under the Go memory model a read of it that no            *)
(* synchronisation orders after a store may return that store's value or   *)
(* an older one, and a goroutine that gets a *Logger from such a read has  *)
(* no guarantee of seeing the stores that built the Logger. thr[t].view is *)
(* the oldest store goroutine t may still read, thr[t].known the Loggers   *)
(* whose construction happens before t's next step; once.Do orders its     *)
(* callers after the call that ran the function.                           *)
(***************************************************************************)

\* the value the variable globalLogger holds
globalLogger == glWrites[Len(glWrites)]

\* the stores to globalLogger a read by goroutine t may observe
Observable(t) == thr[t].view..Len(glWrites)

InDefault(t) == thr[t].pc \in {"d53", "dOnce", "d57", "d58", "dDone", "d61"}
NoSetInFlight == \A u \in Threads : thr[u].pc # "s320"

Larger(a, b) == IF a >= b THEN a ELSE b

\* the arguments of SetGlobalConfig: nil (0) or a Config literal
GlobalConfigs ==
    { [ZeroConfig EXCEPT !.Level = "debug", !.FileName = "./g.log"],
      [ZeroConfig EXCEPT !.FileName = "./g.log"] }
GlobalTexts == {"debug", "warn"}

\* goroutine t is ordered after the return of the last SetGlobalConfig call
\* (it made the call, or synchronised with it since), and no other
\* SetGlobalConfig call has begun
OrderedAfterSet(t) ==
    /\ gh.setDone # 0
    /\ NoSetInFlight
    /\ thr[t].view >= gh.setIdx

\* a goroutine calls Default()
CallDefault(t) ==
    /\ thr[t].pc = "idle"
    /\ thr[t].n < MaxThreadCalls
    /\ thr' = [thr EXCEPT ![t].pc = "d53", ![t].op = "Default", ![t].n = @ + 1,
                          ![t].ref = 0, ![t].built = FALSE,
                          ![t].exp = IF OrderedAfterSet(t) THEN gh.setDone ELSE 0]
    /\ UNCHANGED <<heap, held, retBy, loggers, sinks, last, exited, calls, enr, frm, hx, pkgVars,
                   glWrites, once, gh>>

\* return globalLogger read from store i: the caller sees the Logger built
\* when its construction happens before the read, and may or may not otherwise
Return(t, i, b) ==
    [thr EXCEPT ![t].pc = "ret", ![t].view = i, ![t].ref = glWrites[i],
                ![t].built = IF glWrites[i] \in thr[t].known THEN TRUE ELSE b]

\* Default, lines 53-55: the unguarded fast path
Read53(t, i, b) ==
    /\ thr[t].pc = "d53"
    /\ i \in Observable(t)
    /\ thr' = IF glWrites[i] # 0 THEN Return(t, i, b)
              ELSE [thr EXCEPT ![t].pc = "dOnce", ![t].view = i]
    /\ UNCHANGED <<heap, held, retBy, loggers, sinks, last, exited, calls, enr, frm, hx, pkgVars,
                   glWrites, once, gh>>

\* Default, line 56: once.Do is entered; the first caller runs the function,
\* callers that arrive while it runs wait, later callers return at once
OnceDo(t) ==
    /\ thr[t].pc = "dOnce"
    /\ once.state # "running"
    /\ IF once.state = "fresh"
       THEN /\ once' = [once EXCEPT !.state = "running"]
            /\ thr' = [thr EXCEPT ![t].pc = "d57"]
       ELSE /\ UNCHANGED once
            /\ thr' = [thr EXCEPT ![t].pc = "d61",
                                  ![t].view = Larger(@, once.view),
                                  ![t].known = @ \cup once.known]
    /\ UNCHANGED <<heap, held, retBy, loggers, sinks, last, exited, calls, enr, frm, hx, pkgVars,
                   glWrites, gh>>

\* Default, line 57: the check inside the once function
Read57(t, i) ==
    /\ thr[t].pc = "d57"
    /\ i \in Observable(t)
    /\ thr' = [thr EXCEPT ![t].pc = IF glWrites[i] = 0 THEN "d58" ELSE "dDone",
                          ![t].view = i]
    /\ UNCHANGED <<heap, held, retBy, loggers, sinks, last, exited, calls, enr, frm, hx, pkgVars,
                   glWrites, once, gh>>

\* Default, line 58: globalLogger = New(defaultConfig)
Store58(t) ==
    /\ thr[t].pc = "d58"
    /\ heap' = NewHeap(heap, DefaultAddr)
    /\ loggers' = Append(loggers, NewLogger(heap, DefaultAddr))
    /\ sinks' = Append(sinks, [console |-> 0, file |-> 0])
    /\ glWrites' = Append(glWrites, Len(loggers) + 1)
    /\ thr' = [thr EXCEPT ![t].pc = "dDone", ![t].view = Len(glWrites) + 1,
                          ![t].known = @ \cup {Len(loggers) + 1}]
    /\ gh' = [gh EXCEPT !.news = @ + 1]
    /\ UNCHANGED <<held, retBy, last, exited, calls, enr, frm, hx, pkgVars, once>>

\* the once function returns: once.Do marks the Once done and releases it
OnceDone(t) ==
    /\ thr[t].pc = "dDone"
    /\ once' = [state |-> "done", view |-> thr[t].view, known |-> thr[t].known]
    /\ thr' = [thr EXCEPT ![t].pc = "d61"]
    /\ UNCHANGED <<heap, held, retBy, loggers, sinks, last, exited, calls, enr, frm, hx, pkgVars,
                   glWrites, gh>>

\* Default, line 61: return globalLogger
Read61(t, i, b) ==
    /\ thr[t].pc = "d61"
    /\ i \in Observable(t)
    /\ thr' = Return(t, i, b)
    /\ UNCHANGED <<heap, held, retBy, loggers, sinks, last, exited, calls, enr, frm, hx, pkgVars,
                   glWrites, once, gh>>

\* a goroutine calls SetGlobalConfig; the Default calls in flight are no
\* longer calls made after the last SetGlobalConfig returned
CallSetGlobalConfig(t) ==
    /\ thr[t].pc = "idle"
    /\ thr[t].n < MaxThreadCalls
    /\ thr' = [u \in Threads |->
                 IF u = t
                 THEN [thr[u] EXCEPT !.pc = "s320", !.op = "SetGlobalConfig",
                                     !.n = @ + 1, !.ref = 0, !.built = FALSE, !.exp = 0]
                 ELSE IF InDefault(u) THEN [thr[u] EXCEPT !.exp = 0] ELSE thr[u]]
    /\ gh' = [gh EXCEPT !.setStarted = @ + 1]
    /\ UNCHANGED <<heap, held, retBy, loggers, sinks, last, exited, calls, enr, frm, hx, pkgVars,
                   glWrites, once>>

\* SetGlobalConfig, line 320, for nil
SetGlobalNil(t) ==
    /\ thr[t].pc = "s320"
    /\ heap' = NewHeap(heap, 0)
    /\ retBy' = Append(retBy, 0)
    /\ loggers' = Append(loggers, NewLogger(heap, 0))
    /\ sinks' = Append(sinks, [console |-> 0, file |-> 0])
    /\ glWrites' = Append(glWrites, Len(loggers) + 1)
    /\ thr' = [thr EXCEPT ![t].pc = "idle", ![t].view = Len(glWrites) + 1,
                          ![t].known = @ \cup {Len(loggers) + 1}]
    /\ gh' = [gh EXCEPT !.setDone = Len(loggers) + 1, !.setIdx = Len(glWrites) + 1]
    /\ UNCHANGED <<held, last, exited, calls, enr, frm, hx, pkgVars, once>>

\* SetGlobalConfig, line 320, for a Config literal c: SetGlobalConfig(&Config{...})
SetGlobalConfig(t, c) ==
    /\ thr[t].pc = "s320"
    /\ heap' = NewHeap(Append(heap, c), Len(heap) + 1)
    /\ retBy' = Append(retBy, 0)
    /\ held' = held \cup {Len(heap) + 1}
    /\ loggers' = Append(loggers, NewLogger(Append(heap, c), Len(heap) + 1))
    /\ sinks' = Append(sinks, [console |-> 0, file |-> 0])
    /\ glWrites' = Append(glWrites, Len(loggers) + 1)
    /\ thr' = [thr EXCEPT ![t].pc = "idle", ![t].view = Len(glWrites) + 1,
                          ![t].known = @ \cup {Len(loggers) + 1}]
    /\ gh' = [gh EXCEPT !.setDone = Len(loggers) + 1, !.setIdx = Len(glWrites) + 1]
    /\ UNCHANGED <<last, exited, calls, enr, frm, hx, pkgVars, once>>

\* Default().SetLevel(text) on a Logger the goroutine sees built
DefaultSetLevel(t, text) ==
    /\ thr[t].pc = "ret"
    /\ thr[t].built
    /\ SetLevelBody(thr[t].ref, text)
    /\ thr' = [thr EXCEPT ![t].pc = "idle"]
    /\ UNCHANGED <<held, retBy, sinks, last, exited, calls, enr, frm, hx, pkgVars, glWrites, once, gh>>

\* the goroutine lets go of the Logger Default() returned
Drop(t) ==
    /\ thr[t].pc = "ret"
    /\ thr' = [thr EXCEPT ![t].pc = "idle"]
    /\ UNCHANGED <<heap, held, retBy, loggers, sinks, last, exited, calls, enr, frm, hx, pkgVars,
                   glWrites, once, gh>>

NextGlobal ==
    \E t \in Threads :
        \/ CallDefault(t)
        \/ \E i \in 1..Len(glWrites), b \in BOOLEAN : Read53(t, i, b)
        \/ OnceDo(t)
        \/ \E i \in 1..Len(glWrites) : Read57(t, i)
        \/ Store58(t)
        \/ OnceDone(t)
        \/ \E i \in 1..Len(glWrites), b \in BOOLEAN : Read61(t, i, b)
        \/ CallSetGlobalConfig(t)
        \/ SetGlobalNil(t)
        \/ \E c \in GlobalConfigs : SetGlobalConfig(t, c)
        \/ \E text \in GlobalTexts : DefaultSetLevel(t, text)
        \/ Drop(t)

SpecGlobal == Init /\ [][NextGlobal]_vars

\* C3 (as claimed): a Default() call made after a SetGlobalConfig call has
\* returned, by a goroutine ordered after that return and with no other
\* SetGlobalConfig call since, returns the Logger that SetGlobalConfig call
\* built: the lazy initialisation does not overwrite it.
C3_ExplicitLoggerKept ==
    \A t \in Threads :
        (thr[t].pc = "ret" /\ thr[t].exp # 0) => thr[t].ref = thr[t].exp

\* C4 (as claimed): before any SetGlobalConfig call, Default's New runs at
\* most once and every Default() call returns the same non-nil Logger,
\* seen fully constructed by its caller.
C4_OneDefaultLogger ==
    gh.setStarted = 0 =>
        /\ gh.news <= 1
        /\ \A t \in Threads :
              thr[t].pc = "ret" =>
                 /\ thr[t].ref # 0
                 /\ thr[t].built
                 /\ \A u \in Threads : thr[u].pc = "ret" => thr[u].ref = thr[t].ref

\* the six fields of the Config in, each replaced by the default value when
\* it is unset, are the fields of out
DefaultsFilled(in, out) ==
    /\ out.Level = (IF in.Level = "" THEN "info" ELSE in.Level)
    /\ out.FileName = (IF in.FileName = "" THEN "./logs/app.log" ELSE in.FileName)
    /\ out.MaxSize = (IF in.MaxSize = 0 THEN 100 ELSE in.MaxSize)
    /\ out.MaxAge = (IF in.MaxAge = 0 THEN 7 ELSE in.MaxAge)
    /\ out.MaxBackups = (IF in.MaxBackups = 0 THEN 10 ELSE in.MaxBackups)
    /\ out.TimeZone = (IF in.TimeZone = "" THEN "Asia/Shanghai" ELSE in.TimeZone)

\* C12 (as claimed): whenever New builds a Logger from a Config, the
\* configuration GetConfig() reports for it has info, ./logs/app.log, 100, 7,
\* 10 and Asia/Shanghai in the Level, FileName, MaxSize, MaxAge, MaxBackups
\* and TimeZone fields the Config left unset, and the Config's own value in
\* every field it set.
C12_UnsetFieldsGetDefaults ==
    [][ \A l \in (DOMAIN loggers') \ (DOMAIN loggers) :
            DefaultsFilled(loggers'[l].input, heap'[loggers'[l].config]) ]_vars

\* C5 (as claimed): in every state New(nil) yields a Logger whose
\* configuration is the original defaults.
C5_DefaultsUntouched ==
    NewHeap(heap, 0)[NewAddr(heap, 0)] = defaultConfig

------------------------------------------------------------------------------
(* One Logger called from several goroutines: SetLevel and GetConfig under  *)
(* l.mu, the logging methods through the AtomicLevel.                      *)
(*                                                                         *)
(* Each step of a method is one action. The assignment of line 271 writes  *)
(* the two words of a string one after the other; between the two writes   *)
(* the field holds neither the old nor the new text (TornText).            *)
(***************************************************************************)

\* the Logger the goroutines share: l := New(nil)
TheLogger == 1

TornText == "<torn>"

ConcTexts == {"debug", "error", "bogus"}
ConcMethods == {"Debug", "Warn", "Fatal"}

\* one more call on the shared Logger, within the bound on those calls
ConcTick == calls < MaxConcCalls /\ calls' = calls + 1

\* a goroutine outside any call
ConcIdle ==
    [pc |-> "idle", op |-> "none", text |-> "", err |-> FALSE, snap |-> ZeroConfig,
     cfgs |-> {}, gated |-> {}, cand |-> {}, since |-> <<>>, clean |-> FALSE,
     wrote |-> FALSE, n |-> 0]

InSetLevel(t) == thr[t].pc \in {"sl265", "sl268", "sl271", "sl271b", "slRet"}
BeforeGate(t) == thr[t].pc = "lg176"
BeforeCopy(t) == thr[t].pc \in {"gc277", "gc281"}

\* the state after l := New(nil), before the goroutines start
InitConc ==
    /\ heap = NewHeap(<<defaultConfig>>, 0)
    /\ held = {}
    /\ retBy = <<0, 0>>
    /\ loggers = <<NewLogger(<<defaultConfig>>, 0)>>
    /\ sinks = <<[console |-> 0, file |-> 0]>>
    /\ last = NoCall
    /\ exited = FALSE
    /\ calls = 0
    /\ enr = [ctx |-> NilCtx, fields |-> <<>>, out |-> <<>>, done |-> FALSE]
    /\ frm = NoForm
    /\ hx = NoHttp
    /\ PkgIdle
    /\ glWrites = <<0>>
    /\ once = [state |-> "fresh", view |-> 1, known |-> {}]
    /\ thr = [t \in Threads |-> ConcIdle]
    /\ gh = [cur |-> NewHeap(<<defaultConfig>>, 0)[2], eff |-> <<>>]

\* a goroutine calls l.SetLevel(text); the logging calls that have not yet
\* passed the gate now overlap a SetLevel call
BeginSetLevel(t, text) ==
    /\ ~exited
    /\ thr[t].pc = "idle"
    /\ thr[t].n < MaxThreadCalls
    /\ ConcTick
    /\ thr' = [u \in Threads |->
                 IF u = t
                 THEN [ConcIdle EXCEPT !.pc = "sl265", !.op = "SetLevel", !.text = text,
                                       !.n = thr[t].n + 1]
                 ELSE IF BeforeGate(u) THEN [thr[u] EXCEPT !.clean = FALSE] ELSE thr[u]]
    /\ UNCHANGED <<heap, held, retBy, loggers, sinks, last, exited, enr, frm, hx, pkgVars,
                   glWrites, once, gh>>

\* l.mu.Lock(), line 265: waits until no goroutine holds the mutex
Lock(t) ==
    /\ ~exited
    /\ thr[t].pc = "sl265"
    /\ loggers[TheLogger].mu = FreeMutex
    /\ loggers' = [loggers EXCEPT ![TheLogger].mu.w = t]
    /\ thr' = [thr EXCEPT ![t].pc = "sl268"]
    /\ UNCHANGED <<heap, held, retBy, sinks, last, exited, calls, enr, frm, hx, pkgVars,
                   glWrites, once, gh>>

\* line 268: l.level.UnmarshalText stores the parsed level in the AtomicLevel,
\* or returns the error
Parse268(t) ==
    /\ ~exited
    /\ thr[t].pc = "sl268"
    /\ IF UnmarshalText(thr[t].text).ok
       THEN /\ loggers' = [loggers EXCEPT ![TheLogger].level = UnmarshalText(thr[t].text).lvl]
            /\ thr' = [u \in Threads |->
                         IF u = t THEN [thr[u] EXCEPT !.pc = "sl271"]
                         ELSE IF BeforeGate(u)
                              THEN [thr[u] EXCEPT !.cand = @ \cup {UnmarshalText(thr[t].text).lvl}]
                              ELSE thr[u]]
            /\ gh' = [gh EXCEPT !.eff = <<thr[t].text>>]
       ELSE /\ thr' = [thr EXCEPT ![t].pc = "slRet", ![t].err = TRUE]
            /\ UNCHANGED <<loggers, gh>>
    /\ UNCHANGED <<heap, held, retBy, sinks, last, exited, calls, enr, frm, hx, pkgVars, glWrites, once>>

\* line 271, first word of l.config.Level written
Store271(t) ==
    /\ ~exited
    /\ thr[t].pc = "sl271"
    /\ heap' = [heap EXCEPT ![loggers[TheLogger].config].Level = TornText]
    /\ thr' = [thr EXCEPT ![t].pc = "sl271b"]
    /\ UNCHANGED <<held, retBy, loggers, sinks, last, exited, calls, enr, frm, hx, pkgVars,
                   glWrites, once, gh>>

\* line 271, second word written: l.config.Level = level
Store271b(t) ==
    /\ ~exited
    /\ thr[t].pc = "sl271b"
    /\ heap' = [heap EXCEPT ![loggers[TheLogger].config].Level = thr[t].text]
    /\ thr' = [thr EXCEPT ![t].pc = "slRet"]
    /\ UNCHANGED <<held, retBy, loggers, sinks, last, exited, calls, enr, frm, hx, pkgVars,
                   glWrites, once, gh>>

\* the deferred l.mu.Unlock() of line 266, and the return
Unlock(t) ==
    /\ ~exited
    /\ thr[t].pc = "slRet"
    /\ loggers' = [loggers EXCEPT ![TheLogger].mu.w = 0]
    /\ thr' = [u \in Threads |->
                 IF u = t THEN [thr[u] EXCEPT !.pc = "idle"]
                 ELSE IF BeforeCopy(u)
                      THEN [thr[u] EXCEPT !.cfgs = @ \cup {ConfigOf(TheLogger)}]
                      ELSE thr[u]]
    /\ gh' = [gh EXCEPT !.cur = ConfigOf(TheLogger)]
    /\ UNCHANGED <<heap, held, retBy, sinks, last, exited, calls, enr, frm, hx, pkgVars, glWrites, once>>

\* a goroutine calls l.GetConfig()
BeginGetConfig(t) ==
    /\ ~exited
    /\ thr[t].pc = "idle"
    /\ thr[t].n < MaxThreadCalls
    /\ ConcTick
    /\ thr' = [thr EXCEPT ![t] = [ConcIdle EXCEPT !.pc = "gc277", !.op = "GetConfig",
                                                  !.n = thr[t].n + 1,
                                                  !.cfgs = {gh.cur}]]
    /\ UNCHANGED <<heap, held, retBy, loggers, sinks, last, exited, enr, frm, hx, pkgVars,
                   glWrites, once, gh>>

\* an RLock that does not wait for the goroutine holding the write lock
RLockNoWait(t) ==
    /\ ~exited
    /\ thr[t].pc = "gc277"
    /\ loggers' = [loggers EXCEPT ![TheLogger].mu.r = @ \cup {t}]
    /\ thr' = [thr EXCEPT ![t].pc = "gc281"]
    /\ UNCHANGED <<heap, held, retBy, sinks, last, exited, calls, enr, frm, hx, pkgVars,
                   glWrites, once, gh>>

\* l.mu.RLock(), line 277: waits while a goroutine holds the write lock
RLock(t) ==
    /\ ~exited
    /\ thr[t].pc = "gc277"
    /\ loggers[TheLogger].mu.w = 0
    /\ loggers' = [loggers EXCEPT ![TheLogger].mu.r = @ \cup {t}]
    /\ thr' = [thr EXCEPT ![t].pc = "gc281"]
    /\ UNCHANGED <<heap, held, retBy, sinks, last, exited, calls, enr, frm, hx, pkgVars,
                   glWrites, once, gh>>

\* line 281: config := *l.config
Copy281(t) ==
    /\ ~exited
    /\ thr[t].pc = "gc281"
    /\ thr' = [thr EXCEPT ![t].pc = "gcRet", ![t].snap = ConfigOf(TheLogger)]
    /\ UNCHANGED <<heap, held, retBy, loggers, sinks, last, exited, calls, enr, frm, hx, pkgVars,
                   glWrites, once, gh>>

\* the deferred l.mu.RUnlock() of line 278, and the return of &config
RUnlock(t) ==
    /\ ~exited
    /\ thr[t].pc = "gcRet"
    /\ loggers' = [loggers EXCEPT ![TheLogger].mu.r = @ \ {t}]
    /\ thr' = [thr EXCEPT ![t].pc = "idle"]
    /\ UNCHANGED <<heap, held, retBy, sinks, last, exited, calls, enr, frm, hx, pkgVars,
                   glWrites, once, gh>>

\* a goroutine calls l.Debug, l.Warn or l.Fatal (lines 187, 193, 199)
BeginLog(t, meth) ==
    /\ ~exited
    /\ thr[t].pc = "idle"
    /\ thr[t].n < MaxThreadCalls
    /\ ConcTick
    /\ thr' = [thr EXCEPT ![t] =
                 [ConcIdle EXCEPT !.pc = "lg176", !.op = "Log", !.text = meth,
                                  !.n = thr[t].n + 1,
                                  !.cand = {loggers[TheLogger].level},
                                  !.clean = \A u \in Threads : ~InSetLevel(u),
                                  !.since = IF \A u \in Threads : ~InSetLevel(u)
                                            THEN gh.eff ELSE <<>>]]
    /\ UNCHANGED <<heap, held, retBy, loggers, sinks, last, exited, enr, frm, hx, pkgVars,
                   glWrites, once, gh>>

\* a gate that applies the level parsed when the Logger was built
GateAtInit(t) ==
    /\ ~exited
    /\ thr[t].pc = "lg176"
    /\ thr' = [thr EXCEPT
                 ![t].gated = {InitLevel(loggers[TheLogger].input.Level)},
                 ![t].pc = IF Enabled(SeverityOf(thr[t].text),
                                      InitLevel(loggers[TheLogger].input.Level))
                           THEN "lgWrite" ELSE "idle"]
    /\ UNCHANGED <<heap, held, retBy, loggers, sinks, last, exited, calls, enr, frm, hx, pkgVars,
                   glWrites, once, gh>>

\* the zap method called at lines 189, 195, 201 loads the AtomicLevel and
\* checks the severity against it; a call that does not pass returns
Gate(t) ==
    /\ ~exited
    /\ thr[t].pc = "lg176"
    /\ thr' = [thr EXCEPT
                 ![t].gated = {loggers[TheLogger].level},
                 ![t].pc = IF Enabled(SeverityOf(thr[t].text), loggers[TheLogger].level)
                           THEN "lgWrite" ELSE "idle"]
    /\ UNCHANGED <<heap, held, retBy, loggers, sinks, last, exited, calls, enr, frm, hx, pkgVars,
                   glWrites, once, gh>>

\* zap writes the record to console and file; Debug and Warn return
Write(t) ==
    /\ ~exited
    /\ thr[t].pc = "lgWrite"
    /\ sinks' = [sinks EXCEPT ![TheLogger] =
                    [console |-> @.console + 1, file |-> @.file + 1]]
    /\ thr' = [thr EXCEPT ![t].wrote = TRUE,
                          ![t].pc = IF thr[t].text = "Fatal" THEN "lgExit" ELSE "idle"]
    /\ UNCHANGED <<heap, held, retBy, loggers, last, exited, calls, enr, frm, hx, pkgVars,
                   glWrites, once, gh>>

\* a Fatal that returns to its caller after the write
ExitReturns(t) ==
    /\ ~exited
    /\ thr[t].pc = "lgExit"
    /\ thr' = [thr EXCEPT ![t].pc = "idle"]
    /\ UNCHANGED <<heap, held, retBy, loggers, sinks, last, exited, calls, enr, frm, hx, pkgVars,
                   glWrites, once, gh>>

\* zap's Fatal (line 201) ends the process after the write: os.Exit
Exit(t) ==
    /\ ~exited
    /\ thr[t].pc = "lgExit"
    /\ exited' = TRUE
    /\ thr' = [thr EXCEPT ![t].pc = "exited"]
    /\ UNCHANGED <<heap, held, retBy, loggers, sinks, last, calls, enr, frm, hx, pkgVars,
                   glWrites, once, gh>>

NextConc ==
    \E t \in Threads :
        \/ \E text \in ConcTexts : BeginSetLevel(t, text)
        \/ Lock(t)
        \/ Parse268(t)
        \/ Store271(t)
        \/ Store271b(t)
        \/ Unlock(t)
        \/ BeginGetConfig(t)
        \/ RLock(t)
        \/ Copy281(t)
        \/ RUnlock(t)
        \/ \E meth \in ConcMethods : BeginLog(t, meth)
        \/ Gate(t)
        \/ Write(t)
        \/ Exit(t)

SpecConc == InitConc /\ [][NextConc]_vars

\* a goroutine inside a Fatal call
InFatal(t) == thr[t].op = "Log" /\ thr[t].text = "Fatal" /\ thr[t].pc # "idle"

\* C14: a Fatal call never returns to its caller; the process ends only
\* after the Fatal record has been written to the sinks; and once it has
\* ended no step of any goroutine changes the sinks, the level or the
\* configuration.
C14_FatalTerminates ==
    [][ /\ \A t \in Threads : InFatal(t) => thr'[t].pc # "idle"
        /\ (exited' /\ ~exited)
              => \E t \in Threads :
                    /\ thr'[t].pc = "exited"
                    /\ InFatal(t)
                    /\ thr[t].wrote
                    /\ sinks[TheLogger].file >= 1
        /\ exited => (exited' /\ sinks' = sinks /\ loggers' = loggers /\ heap' = heap) ]_vars

\* the process has ended after a Fatal record while another goroutine's
\* Warn call had passed the gate and not yet written
C14_Witness ==
    /\ exited
    /\ \E t, u \in Threads :
          /\ thr[t].pc = "exited"
          /\ thr[t].text = "Fatal"
          /\ thr[t].wrote
          /\ thr[u].pc = "lgWrite"
          /\ thr[u].text = "Warn"
          /\ sinks[TheLogger].file = 1

\* C15: every GetConfig returns the configuration as it stood when no
\* SetLevel call was inside its critical section, at a moment of the GetConfig
\* call; and when no SetLevel call is in flight and one has taken effect,
\* the configuration's Level is the text of the SetLevel that took effect
\* last and the gate applies the level that text names.
C15_ConsistentSnapshots ==
    /\ \A t \in Threads :
          (thr[t].op = "GetConfig" /\ thr[t].pc \in {"gcRet", "idle"})
              => thr[t].snap \in thr[t].cfgs
    /\ ((\A t \in Threads : ~InSetLevel(t)) /\ gh.eff # <<>>)
          => /\ ConfigOf(TheLogger).Level = gh.eff[1]
             /\ loggers[TheLogger].level = LevelOf(ConfigOf(TheLogger).Level)

\* a GetConfig has copied the configuration SetLevel("debug") left while a
\* SetLevel("error") of another goroutine waits for the mutex
C15_Witness ==
    \E t, u \in Threads :
        /\ thr[t].pc = "gcRet"
        /\ thr[t].snap.Level = "debug"
        /\ thr[u].pc = "sl265"
        /\ thr[u].text = "error"
        /\ loggers[TheLogger].level = LevelOf("debug")

\* C16: a logging call that starts when the last SetLevel to take effect,
\* SetLevel(n), has returned and no SetLevel call is in flight, and that no
\* SetLevel call overlaps before its gate check, is gated by n; every
\* logging call is gated by a level that was current at some moment between
\* its start and its gate check; and it writes exactly when its severity
\* passes that level.
C16_SetLevelVisible ==
    \A t \in Threads :
        (thr[t].op = "Log" /\ thr[t].gated # {})
            => /\ thr[t].gated \subseteq thr[t].cand
               /\ (thr[t].clean /\ thr[t].since # <<>>)
                     => thr[t].gated = {LevelOf(thr[t].since[1])}
               /\ \A g \in thr[t].gated :
                     (thr[t].pc = "idle" /\ ~thr[t].wrote)
                        <=> Rank(NameOfMethod(thr[t].text)) < Rank(NameOfLevel(g))

\* a Warn call made after SetLevel("error") had returned has been
\* suppressed by the gate
C16_Witness ==
    \E t \in Threads :
        /\ thr[t].op = "Log"
        /\ thr[t].text = "Warn"
        /\ thr[t].pc = "idle"
        /\ ~thr[t].wrote
        /\ thr[t].clean
        /\ thr[t].since = <<"error">>
        /\ thr[t].gated = {LevelOf("error")}
        /\ sinks[TheLogger].file = 0

------------------------------------------------------------------------------
(* One logging call made in the structured and in the formatted form, for  *)
(* every method, context, format, argument list and level within the bounds *)

\* a format: a sequence of pieces, each a literal text, the verb %v or %%
FormatPieces == {"m", "%v", "%%"}

RECURSIVE Formats(_)
Formats(n) ==
    IF n = 0 THEN {<<>>}
    ELSE Formats(n - 1) \cup
         { Append(f, p) : f \in {g \in Formats(n - 1) : Len(g) = n - 1}, p \in FormatPieces }

\* the arguments of a formatted call
ArgValues == { [t |-> "string", v |-> "x"], [t |-> "int", v |-> 7] }

RECURSIVE ArgLists(_)
ArgLists(n) ==
    IF n = 0 THEN {<<>>}
    ELSE ArgLists(n - 1) \cup
         { Append(a, v) : a \in {b \in ArgLists(n - 1) : Len(b) = n - 1}, v \in ArgValues }

\* the format as the string the caller wrote
RECURSIVE FormatText(_)
FormatText(format) ==
    IF format = <<>> THEN "" ELSE Head(format) \o FormatText(Tail(format))

\* the operands fmt.Sprintf did not use, as it lists them: type=value, ...
RECURSIVE ExtraList(_, _)
ExtraList(args, k) ==
    (IF args[k].t = "string" THEN "string=" ELSE "int=") \o Sprint(args[k])
        \o (IF k < Len(args) THEN ", " \o ExtraList(args, k + 1) ELSE "")

\* fmt.Sprintf(format, args...), k operands used so far
RECURSIVE SprintfFrom(_, _, _)
SprintfFrom(format, args, k) ==
    IF format = <<>>
    THEN IF k < Len(args) THEN "%!(EXTRA " \o ExtraList(args, k + 1) \o ")" ELSE ""
    ELSE IF Head(format) = "%%" THEN "%" \o SprintfFrom(Tail(format), args, k)
    ELSE IF Head(format) = "%v"
         THEN IF k < Len(args)
              THEN Sprint(args[k + 1]) \o SprintfFrom(Tail(format), args, k + 1)
              ELSE "%!v(MISSING)" \o SprintfFrom(Tail(format), args, k)
    ELSE Head(format) \o SprintfFrom(Tail(format), args, k)

Sprintf(format, args) == SprintfFrom(format, args, 0)

\* fmt.Sprint(args...): a space between two operands when neither is a string
RECURSIVE SprintAll(_)
SprintAll(args) ==
    IF args = <<>> THEN ""
    ELSE IF Len(args) = 1 THEN Sprint(args[1])
    ELSE Sprint(args[1])
           \o (IF args[1].t # "string" /\ args[2].t # "string" THEN " " ELSE "")
           \o SprintAll(Tail(args))

\* the message zap's SugaredLogger builds in Infof, Errorf, Debugf and Warnf
\* (lines 212, 223, 234, 245): the format itself when there are no
\* arguments, fmt.Sprintf when the format is not empty, else the arguments
GetMessage(format, args) ==
    IF args = <<>> THEN FormatText(format)
    ELSE IF format # <<>> THEN Sprintf(format, args)
    ELSE IF Len(args) = 1 /\ args[1].t = "string" THEN args[1].v
    ELSE SprintAll(args)

FormMethods == {"Debug", "Info", "Warn", "Error"}

\* severity of the SugaredLogger method each formatted method calls
\* (lines 212, 223, 234, 245)
SeverityOfFormatted(meth) ==
    CASE meth = "Debug" -> LevelOf("debug")
      [] meth = "Info"  -> LevelOf("info")
      [] meth = "Warn"  -> LevelOf("warn")
      [] meth = "Error" -> LevelOf("error")

\* a formatted call that attaches the traceId whenever the context is not nil
SugarFieldsUnchecked(ctx) ==
    IF ~ctx.nil
    THEN <<ZapString("traceId", Sprint(ChainValue(ctx.chain, "traceId")))>>
    ELSE <<>>

\* the fields sugar.With adds in the formatted methods (lines 207-211 and
\* the same lines of Errorf, Debugf, Warnf)
SugarFields(ctx) ==
    IF ~ctx.nil /\ ChainValue(ctx.chain, "traceId") # NilValue
    THEN <<ZapString("traceId", Sprint(ChainValue(ctx.chain, "traceId")))>>
    ELSE <<>>

\* the record Debug, Info, Warn or Error (lines 174-196) writes at the given
\* level of the Logger
Structured(meth, ctx, msg, fields, level) ==
    IF Enabled(SeverityOf(meth), level)
    THEN [wrote |-> TRUE, level |-> SeverityOf(meth), msg |-> msg,
          fields |-> addTraceID(ctx, fields)]
    ELSE NoRecord

\* the record Debugf, Infof, Warnf or Errorf (lines 204-246) writes
Formatted(meth, ctx, format, args, level) ==
    IF Enabled(SeverityOfFormatted(meth), level)
    THEN [wrote |-> TRUE, level |-> SeverityOfFormatted(meth),
          msg |-> GetMessage(format, args), fields |-> SugarFields(ctx)]
    ELSE NoRecord

FormCtxs ==
    { NilCtx, Background,
      WithValue(Background, "traceId", [t |-> "string", v |-> "abc"]),
      WithValue(Background, "traceId", [t |-> "int", v |-> 42]),
      WithValue(Background, "traceId", NilValue),
      WithValue(Background, "other", [t |-> "string", v |-> "abc"]) }

FormLevels == {LevelOf(n) : n \in {"debug", "info", "warn", "error", "fatal"}}

InitForms ==
    /\ heap = <<defaultConfig>>
    /\ held = {}
    /\ retBy = <<0>>
    /\ loggers = <<>>
    /\ sinks = <<>>
    /\ last = NoCall
    /\ exited = FALSE
    /\ calls = 0
    /\ enr = [ctx |-> NilCtx, fields |-> <<>>, out |-> <<>>, done |-> FALSE]
    /\ frm \in [meth : FormMethods, ctx : FormCtxs, format : Formats(MaxPieces),
                args : ArgLists(MaxArgs), level : FormLevels,
                s : {NoRecord}, f : {NoRecord}, done : {FALSE}]
    /\ hx = NoHttp
    /\ PkgIdle
    /\ GlobalIdle

\* l.Level(ctx, format) and l.Levelf(ctx, format, args...) on a Logger at
\* level frm.level
BothForms ==
    /\ ~frm.done
    /\ frm' = [frm EXCEPT
                 !.s = Structured(frm.meth, frm.ctx, FormatText(frm.format), <<>>, frm.level),
                 !.f = Formatted(frm.meth, frm.ctx, frm.format, frm.args, frm.level),
                 !.done = TRUE]
    /\ UNCHANGED <<heap, held, retBy, loggers, sinks, last, exited, calls, enr, hx, pkgVars, globVars>>

NextForms == BothForms

SpecForms == InitForms /\ [][NextForms]_vars

\* the formatted call writes a record exactly when the structured call does,
\* at the same level and with the same traceId field
SameGateLevelTrace ==
    /\ frm.f.wrote = frm.s.wrote
    /\ frm.f.wrote <=> Rank(NameOfMethod(frm.meth)) >= Rank(NameOfLevel(frm.level))
    /\ frm.f.level = frm.s.level
    /\ frm.f.fields = frm.s.fields
    /\ frm.f.wrote =>
          frm.f.fields = (IF CarriesTraceId(frm.ctx)
                          THEN <<ZapString("traceId", DefaultText(InnermostTrace(frm.ctx.chain)))>>
                          ELSE <<>>)

\* C17 (as claimed): Levelf(ctx, format, args) is gated like Level(ctx, msg)
\* and its record has the same level and the same traceId field, the
\* message being format interpolated with args.
C17_FormattedLikeStructured ==
    frm.done =>
        /\ SameGateLevelTrace
        /\ frm.f.wrote => frm.f.msg = Sprintf(frm.format, frm.args)

\* C17 (amended): as claimed, except that the message is format interpolated
\* with args only when there are arguments and the format is not empty; with
\* no arguments it is the format text as written, and with an empty format
\* it is the arguments in their default form.
C17_FormattedLikeStructuredAmended ==
    frm.done =>
        /\ SameGateLevelTrace
        /\ frm.f.wrote =>
              frm.f.msg = (IF frm.args = <<>> THEN FormatText(frm.format)
                           ELSE IF frm.format # <<>> THEN Sprintf(frm.format, frm.args)
                           ELSE SprintAll(frm.args))

\* Warnf with an int traceId and one argument at level info: the record
\* carries traceId "42" and the interpolated message
C17_Witness ==
    /\ frm.done
    /\ frm.meth = "Warn"
    /\ frm.level = LevelOf("info")
    /\ frm.format = <<"m", "%v">>
    /\ frm.args = <<[t |-> "int", v |-> 7]>>
    /\ frm.f.wrote
    /\ frm.s.wrote
    /\ frm.f.msg = "m7"
    /\ frm.f.fields = <<ZapString("traceId", "42")>>

------------------------------------------------------------------------------
(* Package httpx (src/httpx/client.go): a Client and one call of a verb    *)
(* method.                                                                 *)
(*                                                                         *)
(* A URL or path is a sequence of pieces ("http://", "h", "/", "api"); an  *)
(* http.Header is a sequence of [k, vs] entries, one per key; a query is a *)
(* sequence of [k, v] pairs.                                               *)
(***************************************************************************)

\* the values an http.Header holds under key k, <<>> when the key is absent
Values(h, k) ==
    IF \E i \in 1..Len(h) : h[i].k = k
    THEN h[CHOOSE i \in 1..Len(h) : h[i].k = k].vs
    ELSE <<>>

HeaderKeys(h) == {h[i].k : i \in 1..Len(h)}

\* http.Header.Add(k, v)
HeaderAdd(h, k, v) ==
    IF k \in HeaderKeys(h)
    THEN [i \in 1..Len(h) |-> IF h[i].k = k THEN [k |-> k, vs |-> Append(h[i].vs, v)] ELSE h[i]]
    ELSE Append(h, [k |-> k, vs |-> <<v>>])

\* http.Header.Set(k, v)
HeaderSet(h, k, v) ==
    IF k \in HeaderKeys(h)
    THEN [i \in 1..Len(h) |-> IF h[i].k = k THEN [k |-> k, vs |-> <<v>>] ELSE h[i]]
    ELSE Append(h, [k |-> k, vs |-> <<v>>])

\* the inner loops of lines 137-139 and 142-144: every value of one key is
\* added to the request header
RECURSIVE AddValues(_, _, _)
AddValues(dst, k, vs) ==
    IF vs = <<>> THEN dst ELSE AddValues(HeaderAdd(dst, k, Head(vs)), k, Tail(vs))

\* the outer loops of lines 136-140 and 141-145: every key of src is added
\* to the request header
RECURSIVE AddAll(_, _)
AddAll(dst, src) ==
    IF src = <<>> THEN dst
    ELSE AddAll(AddValues(dst, Head(src).k, Head(src).vs), Tail(src))

\* the header of the request, lines 135-148: defaults first, then the
\* per-request headers, then Content-Type
RequestHeader(defaults, headers, contentType) ==
    IF contentType # ""
    THEN HeaderSet(AddAll(AddAll(<<>>, defaults), headers), "Content-Type", contentType)
    ELSE AddAll(AddAll(<<>>, defaults), headers)

\* strings.TrimRight(s, "/") and strings.TrimLeft(s, "/")
RECURSIVE TrimRight(_)
TrimRight(u) ==
    IF u # <<>> /\ u[Len(u)] = "/" THEN TrimRight(SubSeq(u, 1, Len(u) - 1)) ELSE u

RECURSIVE TrimLeft(_)
TrimLeft(u) == IF u # <<>> /\ Head(u) = "/" THEN TrimLeft(Tail(u)) ELSE u

\* strings.HasPrefix(path, "http://") || strings.HasPrefix(path, "https://")
IsAbsolute(path) == path # <<>> /\ Head(path) \in {"http://", "https://"}

\* url.Parse fails on a malformed escape
Parses(u) == \A i \in 1..Len(u) : u[i] # "%zz"

\* the keys and values of query parameters; url.Values.Encode writes the
\* keys in sorted order
QueryKeys == {"k", "q"}
KeyOrder == <<"k", "q">>
QueryVals == {"go", "old", "a b"}

\* url.QueryEscape: a space is written as "+"
QueryEscape(v) == IF v = "a b" THEN "a+b" ELSE v

\* one key=value piece of a raw query
Pair(k, v) == k \o "=" \o QueryEscape(v)

\* the part of a URL before its "?" and the pieces of its raw query
QueryIndex(u) ==
    IF \E i \in 1..Len(u) : u[i] = "?"
    THEN CHOOSE i \in 1..Len(u) : u[i] = "?" /\ \A j \in 1..(i - 1) : u[j] # "?"
    ELSE 0
BeforeQuery(u) == IF QueryIndex(u) = 0 THEN u ELSE SubSeq(u, 1, QueryIndex(u) - 1)
RawQuery(u) == IF QueryIndex(u) = 0 THEN <<>> ELSE SubSeq(u, QueryIndex(u) + 1, Len(u))

\* URL.Query(): the url.Values parsed from the raw query, the values of a
\* key in the order of their pieces; a piece that is no key=value is dropped
RECURSIVE ValuesOf(_, _)
ValuesOf(raw, k) ==
    IF raw = <<>> THEN <<>>
    ELSE (IF \E v \in QueryVals : Pair(k, v) = Head(raw)
          THEN <<CHOOSE v \in QueryVals : Pair(k, v) = Head(raw)>>
          ELSE <<>>) \o ValuesOf(Tail(raw), k)
ParseQuery(raw) == [k \in QueryKeys |-> ValuesOf(raw, k)]

\* the loop of lines 189-191: url.Values.Set for every entry of the map
RECURSIVE SetQuery(_, _)
SetQuery(q, query) ==
    IF query = <<>> THEN q
    ELSE SetQuery([q EXCEPT ![Head(query).k] = <<Head(query).v>>], Tail(query))

\* url.Values.Encode: the pieces of the keys in sorted order
RECURSIVE Encode(_, _)
Encode(q, keys) ==
    IF keys = <<>> THEN <<>>
    ELSE [i \in 1..Len(q[Head(keys)]) |-> Pair(Head(keys), q[Head(keys)][i])]
            \o Encode(q, Tail(keys))

\* URL.String(): the raw query follows a "?" when it is not empty
URLString(before, raw) == IF raw = <<>> THEN before ELSE before \o <<"?">> \o raw

\* an addQuery that appends the entries of the map to the raw query and
\* leaves the parameters the URL already carries
addQueryAppend(rawURL, query) ==
    IF Len(query) = 0 THEN [err |-> FALSE, url |-> rawURL]
    ELSE IF ~Parses(rawURL) THEN [err |-> TRUE, url |-> <<>>]
         ELSE [err |-> FALSE,
               url |-> URLString(BeforeQuery(rawURL),
                                 RawQuery(rawURL)
                                    \o [i \in 1..Len(query) |-> Pair(query[i].k, query[i].v)])]

\* addQuery, lines 180-194: the URL with the query set, [err |-> TRUE] when
\* the URL does not parse
addQuery(rawURL, query) ==
    IF Len(query) = 0 THEN [err |-> FALSE, url |-> rawURL]
    ELSE IF ~Parses(rawURL) THEN [err |-> TRUE, url |-> <<>>]
         ELSE [err |-> FALSE,
               url |-> URLString(BeforeQuery(rawURL),
                                 Encode(SetQuery(ParseQuery(RawQuery(rawURL)), query),
                                        KeyOrder))]

\* Client.resolveURL, lines 167-177
resolveURL(c, path, query) ==
    IF IsAbsolute(path) THEN addQuery(path, query)
    ELSE IF TrimRight(c.baseURL) = <<>> THEN addQuery(path, query)
         ELSE addQuery(TrimRight(c.baseURL) \o <<"/">> \o TrimLeft(path), query)

\* a do that reports no error for a response of status 400 or more
doStatusBlind(c, ctx, method, path, headers, query, contentType, plan) ==
    IF ctx.nil THEN [NoResult EXCEPT !.err = "context must not be nil"]
    ELSE
      LET full == resolveURL(c, path, query)
      IN  IF full.err THEN [NoResult EXCEPT !.err = "url", !.urlBuilt = TRUE]
          ELSE IF ~Parses(full.url)
               THEN [NoResult EXCEPT !.err = "request", !.urlBuilt = TRUE, !.url = full.url]
          ELSE
            LET req == [NoResult EXCEPT
                           !.urlBuilt = TRUE, !.url = full.url, !.attempts = 1,
                           !.sent = RequestHeader(c.defaultHeaders, headers, contentType)]
                ans == plan[1]
            IN  IF ~IsAbsolute(full.url) THEN [req EXCEPT !.err = "scheme"]
                ELSE IF ans.kind = "err" THEN [req EXCEPT !.err = "transport"]
                ELSE IF ~ans.readable THEN [req EXCEPT !.resp = ans.status, !.err = "read"]
                ELSE [req EXCEPT !.resp = ans.status, !.body = "b"]

\* a do without the nil check of lines 121-123: http.NewRequestWithContext
\* rejects the nil context after the URL has been built
doUnchecked(c, ctx, method, path, headers, query, contentType, plan) ==
    IF resolveURL(c, path, query).err
    THEN [NoResult EXCEPT !.err = "url", !.urlBuilt = TRUE]
    ELSE [NoResult EXCEPT !.err = "request", !.urlBuilt = TRUE,
                          !.url = resolveURL(c, path, query).url]

\* Client.do, lines 120-164; plan holds the answers of the server to the
\* successive requests sent to it: an error of the transport, or a response
\* with its status code and a body that can or cannot be read. The
\* http.Client sends no request whose URL has no scheme, and fails.
do(c, ctx, method, path, headers, query, contentType, plan) ==
    IF ctx.nil THEN [NoResult EXCEPT !.err = "context must not be nil"]
    ELSE
      LET full == resolveURL(c, path, query)
      IN  IF full.err THEN [NoResult EXCEPT !.err = "url", !.urlBuilt = TRUE]
          ELSE IF ~Parses(full.url)
               THEN [NoResult EXCEPT !.err = "request", !.urlBuilt = TRUE, !.url = full.url]
          ELSE
            LET req == [NoResult EXCEPT
                           !.urlBuilt = TRUE, !.url = full.url, !.attempts = 1,
                           !.sent = RequestHeader(c.defaultHeaders, headers, contentType)]
                ans == plan[1]
            IN  IF ~IsAbsolute(full.url) THEN [req EXCEPT !.err = "scheme"]
                ELSE IF ans.kind = "err" THEN [req EXCEPT !.err = "transport"]
                ELSE IF ~ans.readable THEN [req EXCEPT !.resp = ans.status, !.err = "read"]
                ELSE IF ans.status >= 400
                     THEN [req EXCEPT !.resp = ans.status, !.body = "b", !.err = "status"]
                     ELSE [req EXCEPT !.resp = ans.status, !.body = "b"]

HttpVerbs == {"Get", "Delete", "Head", "Options", "Post", "Put", "Patch"}
BodyVerbs == {"Post", "Put", "Patch"}

\* http.MethodGet, ... of lines 85-115
MethodOf(verb) ==
    CASE verb = "Get"     -> "GET"
      [] verb = "Delete"  -> "DELETE"
      [] verb = "Head"    -> "HEAD"
      [] verb = "Options" -> "OPTIONS"
      [] verb = "Post"    -> "POST"
      [] verb = "Put"     -> "PUT"
      [] verb = "Patch"   -> "PATCH"

\* Get, Delete, Head, Options, Post, Put, Patch, lines 84-116: the verbs
\* without a body pass no content type
VerbCall(c, in) ==
    do(c, in.ctx, MethodOf(in.verb), in.path, in.headers, in.query,
       IF in.verb \in BodyVerbs THEN in.contentType ELSE "", in.plan)

\* NewClient with WithBaseURL and WithHeader options, lines 63-81
BaseURLs == { <<>>, <<"/">>, <<"http://", "h">>, <<"http://", "h", "/">> }
DefaultHeaderSets ==
    { <<>>, <<[k |-> "X-Default", vs |-> <<"A">>]>>,
      <<[k |-> "X-Default", vs |-> <<"A">>], [k |-> "Accept", vs |-> <<"json">>]>> }
NewClient(baseURL, headers) == [baseURL |-> TrimRight(baseURL), defaultHeaders |-> headers]

\* the arguments of a call
HttpPaths ==
    { <<"/", "api">>, <<"/", "/", "api", "?", "q=old", "k=old">>,
      <<"http://", "abs", "/", "x">>, <<"https://", "abs", "?", "q=old", "q=go">>,
      <<"/", "%zz">> }
HttpQueries ==
    { <<>>, <<[k |-> "q", v |-> "go"]>>,
      <<[k |-> "q", v |-> "a b"], [k |-> "k", v |-> "go"]>> }
RequestHeaders ==
    { <<>>, <<[k |-> "X-Default", vs |-> <<"B">>]>>, <<[k |-> "X-Req", vs |-> <<"B">>]>> }
Answer(kind, status, readable) == [kind |-> kind, status |-> status, readable |-> readable]
HttpPlans ==
    { <<Answer("resp", 200, TRUE)>>,
      <<Answer("resp", 404, TRUE)>>,
      <<Answer("resp", 200, FALSE)>>,
      <<Answer("resp", 500, FALSE)>>,
      <<Answer("err", 0, FALSE), Answer("resp", 200, TRUE)>> }
HttpCtxs == {NilCtx, Background}

HttpCalls ==
    [verb : HttpVerbs, ctx : HttpCtxs, path : HttpPaths, query : HttpQueries,
     headers : RequestHeaders, contentType : {"", "application/json"}, plan : HttpPlans]

InitHttp ==
    /\ heap = <<defaultConfig>>
    /\ held = {}
    /\ retBy = <<0>>
    /\ loggers = <<>>
    /\ sinks = <<>>
    /\ last = NoCall
    /\ exited = FALSE
    /\ calls = 0
    /\ enr = [ctx |-> NilCtx, fields |-> <<>>, out |-> <<>>, done |-> FALSE]
    /\ frm = NoForm
    /\ hx \in { [NoHttp EXCEPT !.client = NewClient(b, h)] :
                   b \in BaseURLs, h \in DefaultHeaderSets }
    /\ PkgIdle
    /\ GlobalIdle

\* one call of a verb method on the Client
HttpCall(in) ==
    /\ ~hx.done
    /\ hx' = [hx EXCEPT !.call = <<in>>, !.res = VerbCall(hx.client, in), !.done = TRUE]
    /\ UNCHANGED <<heap, held, retBy, loggers, sinks, last, exited, calls, enr, frm, pkgVars,
                   globVars>>

NextHttp == \E in \in HttpCalls : HttpCall(in)

SpecHttp == InitHttp /\ [][NextHttp]_vars

\* C18 (as claimed): when the first transport attempt of a call fails, the
\* client gives the request to the transport again before it reports the error.
C18_RetriesFailedAttempt ==
    (hx.done /\ hx.res.err = "transport" /\ hx.call[1].plan[1].kind = "err")
        => hx.res.attempts >= 2

\* C19: a verb method called with a nil context returns a nil response, a
\* nil body and an error, having built no URL and given no request to the
\* http.Client.
C19_NilContextRejected ==
    (hx.done /\ hx.call[1].ctx.nil)
        => /\ hx.res.resp = 0
           /\ hx.res.body = "nil"
           /\ hx.res.err # "nil"
           /\ ~hx.res.urlBuilt
           /\ hx.res.attempts = 0
           /\ hx.res.sent = <<>>

\* Post with a nil context on a client with a base URL and default headers
C19_Witness ==
    /\ hx.done
    /\ hx.call[1].ctx.nil
    /\ hx.call[1].verb = "Post"
    /\ hx.call[1].path = <<"/", "api">>
    /\ hx.client.baseURL = <<"http://", "h">>
    /\ hx.client.defaultHeaders # <<>>
    /\ hx.res.err = "context must not be nil"
    /\ hx.res.attempts = 0

\* C20 (as claimed): in the request sent, a key that both the default
\* headers and the per-request headers carry has the per-request values and
\* not the default ones, and a default key the per-request headers do not
\* carry has its default values.
C20_RequestHeaderOverrides ==
    (hx.done /\ hx.res.resp # 0)
        => \A k \in HeaderKeys(hx.client.defaultHeaders) :
              Values(hx.res.sent, k) =
                 (IF k \in HeaderKeys(hx.call[1].headers)
                  THEN Values(hx.call[1].headers, k)
                  ELSE Values(hx.client.defaultHeaders, k))

------------------------------------------------------------------------------
(* Package utils, JWTService (src/go.mod lines 91-159): GenerateToken on a *)
(* claims value of the calling code. A time is a number of time units; a   *)
(* *NumericDate is <<>> when nil and <<t>> when it points to the time t.   *)
(***************************************************************************)

\* the JWTConfig values given to NewJWT, and the times time.Now() returns
JwtConfigs ==
    [Secret : {"test_secret"}, Issuer : {"", "test-service"}, ExpireTime : {-1, 0, 2}]
JwtTimes == {1, 2}

\* the claims values of the calling code: a *jwt.RegisteredClaims, a
\* *MyClaims (which has GetRegistered) and a jwt.MapClaims (neither)
ClaimsKinds == {"RegisteredClaims", "MyClaims", "MapClaims"}
ClaimsValues ==
    [Issuer : {"", "custom-issuer"},
     IssuedAt : {NilDate, NewNumericDate(0), NewNumericDate(1)},
     ExpiresAt : {NilDate, NewNumericDate(0), NewNumericDate(5)}]

\* NewJWT, lines 113-115
NewJWT(cfg) == [NoJwt EXCEPT !.cfg = cfg]

\* a fill that overwrites the three fields whatever the claims hold
fillAllDefaults(cfg, c, now) ==
    [Issuer    |-> cfg.Issuer,
     IssuedAt  |-> NewNumericDate(now),
     ExpiresAt |-> NewNumericDate(now + cfg.ExpireTime)]

\* JWTService.fillMissingDefaults, lines 148-159
fillMissingDefaults(cfg, c, now) ==
    [Issuer    |-> IF c.Issuer = "" /\ cfg.Issuer # "" THEN cfg.Issuer ELSE c.Issuer,
     IssuedAt  |-> IF c.IssuedAt = NilDate THEN NewNumericDate(now) ELSE c.IssuedAt,
     ExpiresAt |-> IF c.ExpiresAt = NilDate /\ cfg.ExpireTime > 0
                   THEN NewNumericDate(now + cfg.ExpireTime)
                   ELSE c.ExpiresAt]

\* the type switch of GenerateToken, lines 119-127: the registered claims
\* of the payload when the switch is left
SwitchClaims(cfg, kind, c, now) ==
    CASE kind = "RegisteredClaims" -> c
      [] kind = "MyClaims"         -> fillMissingDefaults(cfg, c, now)
      [] OTHER                     -> c

\* jwt.NewWithClaims and Token.SignedString, lines 129-130: the token
\* carries the claims of the payload, signed with the secret
SignedString(cfg, kind, c) == <<[kind |-> kind, claims |-> c, key |-> cfg.Secret]>>

InitJwt ==
    /\ heap = <<defaultConfig>>
    /\ held = {}
    /\ retBy = <<0>>
    /\ loggers = <<>>
    /\ sinks = <<>>
    /\ last = NoCall
    /\ exited = FALSE
    /\ calls = 0
    /\ enr = [ctx |-> NilCtx, fields |-> <<>>, out |-> <<>>, done |-> FALSE]
    /\ frm = NoForm
    /\ hx = NoHttp
    /\ jw \in {NewJWT(cfg) : cfg \in JwtConfigs}
    /\ my = NoMysql
    /\ em = NoEmit
    /\ GlobalIdle

\* JWTService.GenerateToken, lines 118-131, at the time now, on a payload of
\* the calling code whose registered claims are c
GenerateToken(kind, c, now) ==
    /\ jw.n < MaxJwtCalls
    /\ jw' = [jw EXCEPT !.kind = kind, !.before = c,
                        !.claims = SwitchClaims(jw.cfg, kind, c, now),
                        !.now = now,
                        !.token = SignedString(jw.cfg, kind,
                                               SwitchClaims(jw.cfg, kind, c, now)),
                        !.n = jw.n + 1]
    /\ UNCHANGED <<heap, held, retBy, loggers, sinks, last, exited, calls, enr, frm, hx,
                   my, em, globVars>>

\* the calling code builds a claims value and has it signed
SignNew(kind, c, now) ==
    /\ jw.n = 0
    /\ GenerateToken(kind, c, now)

\* the calling code has the claims value it passed before signed again
SignAgain(now) ==
    /\ jw.n > 0
    /\ now >= jw.now
    /\ GenerateToken(jw.kind, jw.claims, now)

NextJwt ==
    \/ \E kind \in ClaimsKinds, c \in ClaimsValues, now \in JwtTimes : SignNew(kind, c, now)
    \/ \E now \in JwtTimes : SignAgain(now)

SpecJwt == InitJwt /\ [][NextJwt]_vars

\* C22: after GenerateToken on a claims value that has GetRegistered, each
\* of Issuer, IssuedAt and ExpiresAt the caller had set is as the caller
\* set it; an unset Issuer is the configured issuer when that is not empty
\* and stays unset otherwise; an unset IssuedAt is the time of the call; an
\* unset ExpiresAt is the time of the call plus the configured expiry when
\* that is positive and stays unset otherwise. After GenerateToken on a
\* *RegisteredClaims no field has changed. The token carries these claims.
C22_FillsOnlyMissing ==
    jw.n > 0 =>
        /\ jw.kind = "MyClaims" =>
             /\ jw.before.Issuer # "" => jw.claims.Issuer = jw.before.Issuer
             /\ (jw.before.Issuer = "" /\ jw.cfg.Issuer # "")
                    => jw.claims.Issuer = jw.cfg.Issuer
             /\ (jw.before.Issuer = "" /\ jw.cfg.Issuer = "") => jw.claims.Issuer = ""
             /\ jw.before.IssuedAt # NilDate => jw.claims.IssuedAt = jw.before.IssuedAt
             /\ jw.before.IssuedAt = NilDate => jw.claims.IssuedAt = NewNumericDate(jw.now)
             /\ jw.before.ExpiresAt # NilDate => jw.claims.ExpiresAt = jw.before.ExpiresAt
             /\ (jw.before.ExpiresAt = NilDate /\ jw.cfg.ExpireTime > 0)
                    => jw.claims.ExpiresAt = NewNumericDate(jw.now + jw.cfg.ExpireTime)
             /\ (jw.before.ExpiresAt = NilDate /\ jw.cfg.ExpireTime <= 0)
                    => jw.claims.ExpiresAt = NilDate
        /\ jw.kind = "RegisteredClaims" => jw.claims = jw.before
        /\ jw.token[1].claims = jw.claims

\* a *MyClaims with its own issuer and no dates, signed twice by a service
\* with an issuer and an expiry of 2: the issuer is kept and the dates of
\* the first call, at time 1, are still there after the second, at time 2
C22_Witness ==
    /\ jw.n = 2
    /\ jw.kind = "MyClaims"
    /\ jw.cfg.Issuer = "test-service"
    /\ jw.cfg.ExpireTime = 2
    /\ jw.now = 2
    /\ jw.claims = [Issuer |-> "custom-issuer", IssuedAt |-> NewNumericDate(1),
                    ExpiresAt |-> NewNumericDate(3)]

------------------------------------------------------------------------------
(* Package mysqlx (src/unnamed/part_001 lines 133-255): BuildDSN and New   *)
(* on a Config of the calling code. A map[string]string is a function from *)
(* its keys to their values; the Params field of a Config is nil, or       *)
(* refers to a map that every copy of the Config refers to as well.        *)
(***************************************************************************)

EmptyMap == [k \in {} |-> ""]
MapPut(m, k, v) == [x \in (DOMAIN m) \cup {k} |-> IF x = k THEN v ELSE m[x]]

\* the defaults of lines 200-208, in the order the code tests them
DefaultParams ==
    <<[k |-> "parseTime", v |-> "true"], [k |-> "loc", v |-> "Local"],
      [k |-> "charset", v |-> "utf8mb4"]>>

\* a Config as a function holds it: the fields of its own copy of the
\* struct, whether its Params is nil, whether its Params is the map of the
\* calling code, the contents of a map it made itself, and the contents of
\* the map of the calling code
Passed(cfg, params) ==
    [cfg |-> cfg, shared |-> ~cfg.nilParams, own |-> EmptyMap, caller |-> params]

\* the map cfg.Params refers to
ParamsOf(a) == IF a.shared THEN a.caller ELSE a.own

\* a store cfg.Params[k] = v
Store(a, k, v) ==
    IF a.shared THEN [a EXCEPT !.caller = MapPut(a.caller, k, v)]
    ELSE [a EXCEPT !.own = MapPut(a.own, k, v)]

\* lines 197-199 and 171-173: a nil Params is replaced by a new map
MakeIfNil(a) ==
    IF a.cfg.nilParams THEN [a EXCEPT !.cfg.nilParams = FALSE, !.own = EmptyMap] ELSE a

\* lines 200-208 of BuildDSN: a default is stored under each key the map
\* does not have
RECURSIVE StoreMissing(_, _)
StoreMissing(a, defs) ==
    IF defs = <<>> THEN a
    ELSE StoreMissing(IF Head(defs).k \in DOMAIN ParamsOf(a) THEN a
                      ELSE Store(a, Head(defs).k, Head(defs).v),
                      Tail(defs))

\* BuildDSN, lines 184-214: the DSN, and the map of the calling code when
\* BuildDSN returns
BuildDSN(a) ==
    LET b == StoreMissing(MakeIfNil(a), DefaultParams)
    IN  [dsn |-> [Net |-> IF a.cfg.Net # "" THEN a.cfg.Net ELSE "tcp",
                  Params |-> ParamsOf(b)],
         caller |-> b.caller]

\* the options WithParam(key, value) and WithPingTimeout(d), lines 169-181
WithParam(k, v) == [opt |-> "WithParam", k |-> k, v |-> v, d |-> 0]
WithPingTimeout(d) == [opt |-> "WithPingTimeout", k |-> "", v |-> "", d |-> d]
ApplyOption(a, o) ==
    IF o.opt = "WithParam" THEN Store(MakeIfNil(a), o.k, o.v)
    ELSE [a EXCEPT !.cfg.PingTimeout = o.d]

\* the loop of lines 220-222
RECURSIVE ApplyOptions(_, _)
ApplyOptions(a, opts) ==
    IF opts = <<>> THEN a ELSE ApplyOptions(ApplyOption(a, Head(opts)), Tail(opts))

\* New, lines 218-255: openOk and pingOk tell whether sql.Open and
\* db.PingContext succeed
MysqlNew(a, opts, openOk, pingOk) ==
    LET base == ApplyOptions(a, opts)
        built == BuildDSN(base)
    IN  [dsn |-> built.dsn,
         caller |-> built.caller,
         db |-> IF ~openOk THEN "nil"
                ELSE IF base.cfg.PingTimeout > 0 /\ ~pingOk THEN "nil" ELSE "db",
         err |-> IF ~openOk THEN "open"
                 ELSE IF base.cfg.PingTimeout > 0 /\ ~pingOk THEN "ping" ELSE "nil",
         maxOpen |-> IF openOk /\ base.cfg.MaxOpenConns > 0 THEN base.cfg.MaxOpenConns ELSE 0,
         pinged |-> openOk /\ base.cfg.PingTimeout > 0]

\* the Configs of the calling code, the maps its Params refers to, and the
\* options it passes to New
MysqlConfigs ==
    [Net : {"", "unix"}, PingTimeout : {0, 1}, MaxOpenConns : {0, 2}, nilParams : BOOLEAN]
MysqlMaps ==
    { EmptyMap,
      MapPut(EmptyMap, "charset", "latin1"),
      MapPut(MapPut(MapPut(EmptyMap, "parseTime", "false"), "loc", "UTC"), "charset", "utf8") }
MysqlOptions ==
    { <<>>, <<WithParam("loc", "UTC")>>, <<WithPingTimeout(1)>>,
      <<WithPingTimeout(0), WithParam("timeout", "5s")>> }

InitMysql ==
    /\ heap = <<defaultConfig>>
    /\ held = {}
    /\ retBy = <<0>>
    /\ loggers = <<>>
    /\ sinks = <<>>
    /\ last = NoCall
    /\ exited = FALSE
    /\ calls = 0
    /\ enr = [ctx |-> NilCtx, fields |-> <<>>, out |-> <<>>, done |-> FALSE]
    /\ frm = NoForm
    /\ hx = NoHttp
    /\ jw = NoJwt
    /\ my \in { [NoMysql EXCEPT !.cfg = c, !.params = IF c.nilParams THEN EmptyMap ELSE m] :
                   c \in MysqlConfigs, m \in MysqlMaps }
    /\ em = NoEmit
    /\ GlobalIdle

\* dsn := BuildDSN(cfg) in the calling code
CallBuildDSN ==
    /\ my.n < MaxDsnCalls
    /\ my' = [my EXCEPT !.op = "BuildDSN",
                        !.before = [cfg |-> my.cfg, params |-> my.params],
                        !.opts = <<>>,
                        !.params = BuildDSN(Passed(my.cfg, my.params)).caller,
                        !.dsn = BuildDSN(Passed(my.cfg, my.params)).dsn,
                        !.db = "nil", !.err = "nil",
                        !.n = my.n + 1]
    /\ UNCHANGED <<heap, held, retBy, loggers, sinks, last, exited, calls, enr, frm, hx,
                   jw, em, globVars>>

\* db, err := New(cfg, opts...) in the calling code
CallNew(opts, openOk, pingOk) ==
    /\ my.n < MaxDsnCalls
    /\ my' = [my EXCEPT !.op = "New",
                        !.before = [cfg |-> my.cfg, params |-> my.params],
                        !.opts = opts,
                        !.params = MysqlNew(Passed(my.cfg, my.params), opts, openOk, pingOk).caller,
                        !.dsn = MysqlNew(Passed(my.cfg, my.params), opts, openOk, pingOk).dsn,
                        !.db = MysqlNew(Passed(my.cfg, my.params), opts, openOk, pingOk).db,
                        !.err = MysqlNew(Passed(my.cfg, my.params), opts, openOk, pingOk).err,
                        !.n = my.n + 1]
    /\ UNCHANGED <<heap, held, retBy, loggers, sinks, last, exited, calls, enr, frm, hx,
                   jw, em, globVars>>

NextMysql ==
    \/ CallBuildDSN
    \/ \E opts \in MysqlOptions, openOk \in BOOLEAN, pingOk \in BOOLEAN :
          CallNew(opts, openOk, pingOk)

SpecMysql == InitMysql /\ [][NextMysql]_vars

\* C28 (as claimed): after BuildDSN or New, the Config of the calling code
\* and the contents of its Params map are what they were before the call,
\* and the DSN of a BuildDSN call carries, for each of parseTime, loc and
\* charset, the value of the caller when the caller supplied the key and
\* the default otherwise.
C28_CallerConfigUnchanged ==
    my.n > 0 =>
        /\ my.cfg = my.before.cfg
        /\ my.params = my.before.params
        /\ my.op = "BuildDSN" =>
              \A i \in 1..Len(DefaultParams) :
                 my.dsn.Params[DefaultParams[i].k] =
                    (IF DefaultParams[i].k \in DOMAIN my.before.params
                     THEN my.before.params[DefaultParams[i].k]
                     ELSE DefaultParams[i].v)

------------------------------------------------------------------------------
(* One logging call followed from the calling code to the sinks: the call  *)
(* stack zap sees when it looks for the call-site, and the write of the    *)
(* record to the console and the file (src/logger/logger.go lines 154-160, *)
(* 174-246, 285-316).                                                      *)
(***************************************************************************)

\* a frame of the call stack: the package and the function
Frame(pkg, fn) == [pkg |-> pkg, fn |-> fn]

\* zap.AddCallerSkip(1), line 160; the frames zap always skips (its check
\* and its public method that called check); the frames Sugar() adds to the
\* skip of the logger it wraps (the SugaredLogger method and its log)
CallerSkip == 1
callerSkipOffset == 2
SugarSkip == 2

\* the call stack when zap's check runs, innermost frame first: the frames
\* of zap, the Logger method (lines 174-246), the package-level function
\* when the call came through one (lines 286-316), and the calling code
StackOf(entry, form, meth) ==
    (IF form = "structured"
     THEN <<Frame("zap", "Logger.check"), Frame("zap", "Logger." \o meth)>>
     ELSE <<Frame("zap", "Logger.check"), Frame("zap", "Logger.Check"),
            Frame("zap", "SugaredLogger.log"), Frame("zap", "SugaredLogger." \o meth \o "f")>>)
    \o <<Frame("logger", "Logger." \o meth \o (IF form = "formatted" THEN "f" ELSE ""))>>
    \o (IF entry = "package"
        THEN <<Frame("logger", meth \o (IF form = "formatted" THEN "f" ELSE ""))>>
        ELSE <<>>)
    \o <<Frame("app", "main")>>

\* the skip of the zap logger that checks the entry: l.logger for the
\* structured methods, l.logger.Sugar() for the formatted ones
SkipOf(form) == IF form = "structured" THEN CallerSkip ELSE CallerSkip + SugarSkip

\* the frame zap records as the caller (zap.AddCaller(), line 160)
CallerOf(stack, skip) == stack[callerSkipOffset + skip + 1]

\* a write that gives up at the first sink that fails
MultiWriteFailFast(p, cok, fok) ==
    [console |-> <<p>>,
     file    |-> IF cok THEN <<p>> ELSE <<>>,
     errs    |-> IF ~cok THEN <<"console">> ELSE IF ~fok THEN <<"file">> ELSE <<>>]

\* the Write of the MultiWriteSyncer of line 156: the bytes are written to
\* the console, then to the file, and the errors of both are collected;
\* cok and fok tell whether the write to the console and to the file succeed
MultiWrite(p, cok, fok) ==
    [console |-> <<p>>,
     file    |-> <<p>>,
     errs    |-> (IF cok THEN <<>> ELSE <<"console">>) \o (IF fok THEN <<>> ELSE <<"file">>)]

\* the logging calls: a Logger method or a package-level function, in the
\* structured or the formatted form; Fatal is a Logger method only
EmitCalls ==
    { c \in [entry : {"method", "package"}, form : {"structured", "formatted"},
             meth : Methods, ctx : LogCtxs, cok : BOOLEAN, fok : BOOLEAN] :
        c.meth = "Fatal" => (c.entry = "method" /\ c.form = "structured") }

\* the record of the call at the given level of the Logger
RecordOf(c, level) ==
    IF c.form = "structured" THEN Structured(c.meth, c.ctx, "m", <<F1>>, level)
    ELSE Formatted(c.meth, c.ctx, <<"m">>, <<>>, level)

\* what the call does: the record encoded with its call-site, the bytes
\* offered to each sink, the line zap writes to its error output (standard
\* error) when a write fails, a panic reaching the calling code (none),
\* and os.Exit after a Fatal
EmitResult(c, level) ==
    LET rec == RecordOf(c, level)
        caller == CallerOf(StackOf(c.entry, c.form, c.meth), SkipOf(c.form))
        p == [level |-> rec.level, msg |-> rec.msg, fields |-> rec.fields, caller |-> caller]
        w == IF rec.wrote THEN MultiWrite(p, c.cok, c.fok)
             ELSE [console |-> <<>>, file |-> <<>>, errs |-> <<>>]
    IN  [passed |-> rec.wrote, caller |-> caller, console |-> w.console, file |-> w.file,
         errOut |-> IF w.errs = <<>> THEN <<>> ELSE <<w.errs>>,
         panic |-> FALSE, exit |-> (c.meth = "Fatal")]

InitEmit ==
    /\ heap = <<defaultConfig>>
    /\ held = {}
    /\ retBy = <<0>>
    /\ loggers = <<>>
    /\ sinks = <<>>
    /\ last = NoCall
    /\ exited = FALSE
    /\ calls = 0
    /\ enr = [ctx |-> NilCtx, fields |-> <<>>, out |-> <<>>, done |-> FALSE]
    /\ frm = NoForm
    /\ hx = NoHttp
    /\ jw = NoJwt
    /\ my = NoMysql
    /\ em \in {[NoEmit EXCEPT !.level = lv] : lv \in FormLevels}
    /\ GlobalIdle

\* one logging call on a Logger whose level is em.level
Emit(c) ==
    /\ ~em.done
    /\ em' = [em EXCEPT !.call = <<c>>, !.res = EmitResult(c, em.level), !.done = TRUE]
    /\ exited' = EmitResult(c, em.level).exit
    /\ UNCHANGED <<heap, held, retBy, loggers, sinks, last, calls, enr, frm, hx, jw, my,
                   globVars>>

NextEmit == \E c \in EmitCalls : Emit(c)

SpecEmit == InitEmit /\ [][NextEmit]_vars

\* C23: a record that passes the gate is offered once to the console and
\* once to the file, with the same content, whether or not the write to the
\* other sink fails, and no failure reaches the calling code: the logging
\* methods return nothing and no panic is raised.
C23_BothSinksOffered ==
    (em.done /\ em.res.passed)
        => /\ Len(em.res.console) = 1
           /\ Len(em.res.file) = 1
           /\ em.res.console = em.res.file
           /\ ~em.res.panic

\* a Warn whose write to the console fails: the file is offered the record
\* all the same and the failure goes to zap's error output
C23_Witness ==
    /\ em.done
    /\ em.res.passed
    /\ em.call[1].meth = "Warn"
    /\ ~em.call[1].cok
    /\ em.call[1].fok
    /\ Len(em.res.file) = 1
    /\ em.res.errOut = <<(<<"console">>)>>
    /\ ~em.res.panic

\* C24 (as claimed): the call-site of every written record is a frame of
\* the calling code, never a frame of package logger.
C24_CallSiteIsApplication ==
    (em.done /\ em.res.passed) => em.res.caller.pkg = "app"

------------------------------------------------------------------------------
(* New and the Compress field (specification Spec) *)

C26_ConfigLevelNamesGate ==
    \A l \in DOMAIN loggers :
        /\ heap[loggers[l].config].Level \in ZapNames
        /\ LevelOf(heap[loggers[l].config].Level) = loggers[l].level

------------------------------------------------------------------------------
(* The results of an httpx call (specification SpecHttp) *)

\* the request of the call reached the server, which gave the first answer
\* of the plan
Answered ==
    /\ hx.done
    /\ hx.res.attempts = 1
    /\ IsAbsolute(hx.res.url)
    /\ hx.call[1].plan[1].kind = "resp"

\* the http.Client failed to get a response
TransportFailed ==
    /\ hx.done
    /\ hx.res.attempts = 1
    /\ (~IsAbsolute(hx.res.url) \/ hx.call[1].plan[1].kind = "err")

\* C27 (as claimed): a call answered with a status of 400 or more returns
\* the response, the body and an error; a call answered with a status
\* below 400 returns the response, the body and no error; a call whose
\* transport fails returns no response, no body and an error.
C27_StatusOutcomes ==
    /\ (Answered /\ hx.call[1].plan[1].status >= 400)
          => /\ hx.res.resp = hx.call[1].plan[1].status
             /\ hx.res.body = "b"
             /\ hx.res.err # "nil"
    /\ (Answered /\ hx.call[1].plan[1].status < 400)
          => /\ hx.res.resp = hx.call[1].plan[1].status
             /\ hx.res.body = "b"
             /\ hx.res.err = "nil"
    /\ TransportFailed
          => /\ hx.res.resp = 0
             /\ hx.res.body = "nil"
             /\ hx.res.err # "nil"

\* C27 (amended): the two cases of an answered call hold when the body of
\* the response can be read to its end; when reading the body fails the
\* call returns the response, no body and the error of the read, whatever
\* the status.
C27_StatusOutcomesAmended ==
    /\ (Answered /\ hx.call[1].plan[1].readable /\ hx.call[1].plan[1].status >= 400)
          => /\ hx.res.resp = hx.call[1].plan[1].status
             /\ hx.res.body = "b"
             /\ hx.res.err = "status"
    /\ (Answered /\ hx.call[1].plan[1].readable /\ hx.call[1].plan[1].status < 400)
          => /\ hx.res.resp = hx.call[1].plan[1].status
             /\ hx.res.body = "b"
             /\ hx.res.err = "nil"
    /\ (Answered /\ ~hx.call[1].plan[1].readable)
          => /\ hx.res.resp = hx.call[1].plan[1].status
             /\ hx.res.body = "nil"
             /\ hx.res.err = "read"
    /\ TransportFailed
          => /\ hx.res.resp = 0
             /\ hx.res.body = "nil"
             /\ hx.res.err # "nil"

\* a Head answered with 404: the response, its body and the status error
C27_Witness ==
    /\ Answered
    /\ hx.call[1].verb = "Head"
    /\ hx.call[1].plan[1] = Answer("resp", 404, TRUE)
    /\ hx.res.resp = 404
    /\ hx.res.body = "b"
    /\ hx.res.err = "status"

====
